---- MODULE Spec2Model ----
(***************************************************************************)
(* Model of the store client: the API client (api.ts: the request          *)
(* functions and handleResponse), the session context (UserContext.tsx)    *)
(* and the pages (Home, ProductDetail, Register, CartPage) under the       *)
(* router of App.tsx.                                                      *)
(*                                                                         *)
(* Specifications:                                                         *)
(*   Spec             one API call at a time, from the call to fetch to    *)
(*                    the settled promise;                                 *)
(*   SpecCart         the cart page driven by a user through the           *)
(*                    affordances the page renders;                        *)
(*   SpecCartHandlers the cart page with its handlers invoked directly,    *)
(*                    whatever is rendered (a superset of SpecCart);       *)
(*   SpecSession      the session context and the persistent store, over   *)
(*                    successive sessions, with its functions called       *)
(*                    directly;                                            *)
(*   SpecApp          the whole application driven by a user through the   *)
(*                    affordances the pages and the header render;         *)
(*   SpecAppHandlers  the application with the handlers of the mounted     *)
(*                    page invoked directly (a superset of SpecApp).       *)
(***************************************************************************)
EXTENDS Integers, Sequences, FiniteSets, Bags, TLC

VARIABLES
    \* ---- API client (api.ts) ----
    apiPc,          \* "idle" | "fetching" | "settled"
    apiFn,          \* the API function called, "none" when idle
    apiRes,         \* NULL or Some(the Response fetch resolved with)
    apiTransport,   \* NULL or Some(the value fetch rejected with)
    apiHandleCalls, \* number of times handleResponse was entered by this call
    apiJsonCalls,   \* number of times res.json() was invoked by this call
    apiOutcome,     \* the promise the API function returned
    \* ---- session context (UserContext.tsx) ----
    currentUserId,  \* NULL or Some(id)
    \* ---- cart page (CartPage.tsx) ----
    route,          \* "/cart" | "/" | "/register"
    cartItems,      \* useState<CartItemDto[]>
    loading,        \* useState(true)
    error,          \* useState<string | null>: NULL or Some(string)
    checkoutResult, \* useState<CheckoutResultDto | null>: NULL or Some(result)
    pending,        \* bag of API promises the page is awaiting
    lastEvent,      \* the last step the page took (history)
    \* ---- session context and persistent store (UserContext.tsx) ----
    storage,        \* localStorage entry under USER_ID_STORAGE_KEY: NULL or Some(string)
    provider,       \* "unmounted" | "rendered" (mount effect not yet run) | "initialized"
    identityCall,   \* NULL or Some(argument of the latest setCurrentUserId call) (history)
    \* ---- product list (Home.tsx) ----
    products,       \* useState<ProductDto[]>([])
    homeLoading,    \* useState(true)
    homeError,      \* useState<string | null>(null)
    homeMessage,    \* useState<string | null>(null)
    \* ---- product detail (ProductDetail.tsx) ----
    product,        \* useState<ProductDto | null>(null)
    detailLoading,  \* useState(true)
    detailError,    \* useState<string | null>(null)
    quantity,       \* useState(1)
    detailMessage,  \* useState<string | null>(null)
    \* ---- registration form (Register.tsx) ----
    username,       \* useState("")
    email,          \* useState("")
    regLoading,     \* useState(false)
    regError,       \* useState<string | null>(null)
    \* ---- timers ----
    timers          \* bag of pending setTimeout callbacks

apiVars == <<apiPc, apiFn, apiRes, apiTransport, apiHandleCalls, apiJsonCalls, apiOutcome>>
cartVars == <<currentUserId, route, cartItems, loading, error, checkoutResult, pending, lastEvent>>
sessionVars == <<storage, provider, identityCall>>
homeVars == <<products, homeLoading, homeError, homeMessage>>
detailVars == <<product, detailLoading, detailError, quantity, detailMessage>>
registerVars == <<username, email, regLoading, regError>>
pageVars == <<homeVars, detailVars, registerVars, timers>>
vars == <<apiVars, cartVars, sessionVars, pageVars>>

\* ------------------------------------------------------------------------
\* JavaScript values
\* ------------------------------------------------------------------------

\* T | null: NULL is null, Some(x) is x.
NULL == <<>>
Some(x) == <<x>>
Get(o) == o[1]

Undefined == [t |-> "undefined"]
JsNull == [t |-> "null"]
JsString(s) == [t |-> "string", s |-> s]
JsBool(b) == [t |-> "boolean", b |-> b]
\* The empty array []: truthy, and String([]) is "".
EmptyArray == [t |-> "array"]
JsObject(message, success) == [t |-> "object", message |-> message, success |-> success]
\* new Error(message)
Error(message) == [t |-> "Error", message |-> message]

\* JavaScript truthiness of the values above.
Truthy(v) ==
    CASE v.t = "undefined" -> FALSE
      [] v.t = "null" -> FALSE
      [] v.t = "string" -> v.s # ""
      [] v.t = "boolean" -> v.b
      [] OTHER -> TRUE

\* String(v), as the Error constructor applies it to its argument.
JsToString(v) ==
    CASE v.t = "undefined" -> "undefined"
      [] v.t = "null" -> "null"
      [] v.t = "string" -> v.s
      [] v.t = "boolean" -> IF v.b THEN "true" ELSE "false"
      [] v.t = "array" -> ""
      [] OTHER -> "[object Object]"

Digit(d) ==
    CASE d = 0 -> "0" [] d = 1 -> "1" [] d = 2 -> "2" [] d = 3 -> "3" [] d = 4 -> "4"
      [] d = 5 -> "5" [] d = 6 -> "6" [] d = 7 -> "7" [] d = 8 -> "8" [] d = 9 -> "9"

\* The decimal form of a status code inside a template literal.
RECURSIVE NatToString(_)
NatToString(n) == IF n < 10 THEN Digit(n) ELSE NatToString(n \div 10) \o Digit(n % 10)

\* ------------------------------------------------------------------------
\* Strings whose characters matter (sequences of one-character strings) and
\* the conversions the code applies to them
\* ------------------------------------------------------------------------

IsDigit(c) == c \in {"0", "1", "2", "3", "4", "5", "6", "7", "8", "9"}

DigitValue(c) ==
    CASE c = "0" -> 0 [] c = "1" -> 1 [] c = "2" -> 2 [] c = "3" -> 3 [] c = "4" -> 4
      [] c = "5" -> 5 [] c = "6" -> 6 [] c = "7" -> 7 [] c = "8" -> 8 [] c = "9" -> 9

\* The no-break space U+00A0.
NBSP == "nbsp"

\* ASCII whitespace, which the value sanitization of an input strips.
IsAsciiSpace(c) == c = " "

\* White space as String.prototype.trim(), parseInt and the class \s know it.
IsSpace(c) == c \in {" ", NBSP}

RECURSIVE TrimStart(_)
TrimStart(s) == IF s # <<>> /\ IsSpace(Head(s)) THEN TrimStart(Tail(s)) ELSE s

RECURSIVE TrimEnd(_)
TrimEnd(s) == IF s # <<>> /\ IsSpace(s[Len(s)]) THEN TrimEnd(SubSeq(s, 1, Len(s) - 1)) ELSE s

\* String.prototype.trim()
trim(s) == TrimEnd(TrimStart(s))

\* The numbers the conversions produce: an integer or NaN.
NaN == [t |-> "NaN"]
JsNumber(n) == [t |-> "number", n |-> n]
isNaN(v) == v.t = "NaN"

\* The length of the longest prefix of s made of digits.
RECURSIVE LeadingDigits(_)
LeadingDigits(s) == IF s # <<>> /\ IsDigit(Head(s)) THEN 1 + LeadingDigits(Tail(s)) ELSE 0

\* The value of a sequence of digits.
RECURSIVE DigitsValue(_)
DigitsValue(d) ==
    IF d = <<>> THEN 0 ELSE 10 * DigitsValue(SubSeq(d, 1, Len(d) - 1)) + DigitValue(d[Len(d)])

\* parseInt(s, 10): leading whitespace is skipped, then an optional sign is
\* read, then the longest run of digits; what follows the digits is ignored,
\* and the result is NaN when there is no digit.
parseInt(s) ==
    LET body == TrimStart(s)
        signed == body # <<>> /\ Head(body) \in {"-", "+"}
        rest == IF signed THEN Tail(body) ELSE body
        n == LeadingDigits(rest)
        magnitude == DigitsValue(SubSeq(rest, 1, n))
    IN IF n = 0 THEN NaN
       ELSE JsNumber(IF signed /\ Head(body) = "-" THEN 0 - magnitude ELSE magnitude)

RECURSIVE NatDigits(_)
NatDigits(n) == IF n < 10 THEN <<Digit(n)>> ELSE NatDigits(n \div 10) \o <<Digit(n % 10)>>

\* Number.prototype.toString() of an integer.
NumberToString(n) == IF n < 0 THEN <<"-">> \o NatDigits(0 - n) ELSE NatDigits(n)

\* ------------------------------------------------------------------------
\* API client: responses
\* ------------------------------------------------------------------------

ApiFunctions ==
    {"createUser", "getUsers", "getUserById", "updateUser", "deleteUser",
     "getProducts", "getProductById", "getCart", "addToCart", "removeFromCart",
     "checkout"}

\* The operations whose declared result is Promise<void>.
NoContentOps == {"deleteUser", "addToCart", "removeFromCart"}

Statuses == {200, 201, 204, 400, 404, 500}
StatusTexts == {"", "Internal Server Error"}

\* The message field of a JSON body: absent, null, a string, or not a string.
MessageFields == {Undefined, JsNull, JsString(""), JsString("Server error"), EmptyArray}
\* The success field of a JSON body (CheckoutResultDto.success).
SuccessFields == {Undefined, JsBool(TRUE), JsBool(FALSE)}

JsonValues == {JsNull} \cup {JsObject(m, s) : m \in MessageFields, s \in SuccessFields}

\* A body: text that res.json() parses to a value, or text it rejects.
Bodies == {[parses |-> FALSE, json |-> Undefined]} \cup {[parses |-> TRUE, json |-> j] : j \in JsonValues}

\* What fetch can resolve with. A 204 response has no body: res.json() would
\* reject on it.
Responses ==
    {r \in [status : Statuses, statusText : StatusTexts, body : Bodies] :
        r.status = 204 => ~r.body.parses}

\* Response.ok
Ok(res) == res.status >= 200 /\ res.status <= 299

\* What res.json() rejects with on a body that is not JSON.
ParseError == Error("Unexpected end of JSON input")

\* What fetch rejects with when the transport cannot complete.
TransportErrors == {Error("Failed to fetch"), Error("Network error")}

Pending == [state |-> "pending", value |-> Undefined]
Fulfilled(v) == [state |-> "fulfilled", value |-> v]
Rejected(v) == [state |-> "rejected", value |-> v]

\* Mutant: the catch lets the exception through.
AsyncTryCatch_Rethrows(awaited, thenThrows) ==
    IF awaited.state = "rejected" THEN awaited
    ELSE IF thenThrows THEN Rejected(Error("TypeError"))
    ELSE Fulfilled(Undefined)

\* The promise of an async handler whose body is
\* `try { ...; await p; ... } catch (err) { setError(...) }`, with or without
\* a `finally { setLoading(false) }`: what it settles with, given what p
\* settled with and whether the statements after the await throw. The catch
\* and the finally only set state and return.
AsyncTryCatch(awaited, thenThrows) ==
    IF awaited.state = "rejected" THEN Fulfilled(Undefined)
    ELSE IF thenThrows THEN Fulfilled(Undefined)
    ELSE Fulfilled(Undefined)

\* body?.message
OptionalMessage(body) == IF body.t = "object" THEN body.message ELSE Undefined

\* a || b
OrElse(a, b) == IF Truthy(a) THEN a ELSE b

\* ------------------------------------------------------------------------
\* API client: handleResponse and the request functions
\* ------------------------------------------------------------------------

\* Mutant: no special case for 204, the body of every 2xx response is parsed.
handleResponse_Parse204(res) ==
    IF Ok(res)
    THEN [outcome |-> IF res.body.parses THEN Fulfilled(res.body.json) ELSE Rejected(ParseError),
          jsonCalls |-> 1]
    ELSE LET err == IF res.body.parses /\ Truthy(OptionalMessage(res.body.json))
                    THEN OptionalMessage(res.body.json)
                    ELSE JsString(res.statusText)
         IN [outcome |-> Rejected(Error(JsToString(OrElse(err, JsString("HTTP " \o NatToString(res.status)))))),
             jsonCalls |-> 1]

\* Mutant: a 2xx body that does not parse is swallowed and the call resolves.
handleResponse_SwallowParseError(res) ==
    IF Ok(res)
    THEN IF res.status = 204
         THEN [outcome |-> Fulfilled(Undefined), jsonCalls |-> 0]
         ELSE [outcome |-> IF res.body.parses THEN Fulfilled(res.body.json) ELSE Fulfilled(Undefined),
               jsonCalls |-> 1]
    ELSE LET err == IF res.body.parses /\ Truthy(OptionalMessage(res.body.json))
                    THEN OptionalMessage(res.body.json)
                    ELSE JsString(res.statusText)
         IN [outcome |-> Rejected(Error(JsToString(OrElse(err, JsString("HTTP " \o NatToString(res.status)))))),
             jsonCalls |-> 1]

\* Mutant: a parsed 2xx body with success = false is thrown as an Error.
handleResponse_ThrowOnFailureFlag(res) ==
    IF Ok(res)
    THEN IF res.status = 204
         THEN [outcome |-> Fulfilled(Undefined), jsonCalls |-> 0]
         ELSE [outcome |->
                   IF ~res.body.parses THEN Rejected(ParseError)
                   ELSE IF res.body.json.t = "object" /\ res.body.json.success = JsBool(FALSE)
                        THEN Rejected(Error(JsToString(res.body.json.message)))
                        ELSE Fulfilled(res.body.json),
               jsonCalls |-> 1]
    ELSE LET err == IF res.body.parses /\ Truthy(OptionalMessage(res.body.json))
                    THEN OptionalMessage(res.body.json)
                    ELSE JsString(res.statusText)
         IN [outcome |-> Rejected(Error(JsToString(OrElse(err, JsString("HTTP " \o NatToString(res.status)))))),
             jsonCalls |-> 1]

\* handleResponse(res): the promise it returns and the number of res.json() calls.
handleResponse(res) ==
    IF Ok(res)
    THEN IF res.status = 204
         THEN \* return undefined as T
              [outcome |-> Fulfilled(Undefined), jsonCalls |-> 0]
         ELSE \* return res.json() as Promise<T>
              [outcome |-> IF res.body.parses THEN Fulfilled(res.body.json) ELSE Rejected(ParseError),
               jsonCalls |-> 1]
    ELSE \* let err = res.statusText; try { body = await res.json(); if (body?.message) err = body.message } catch {}
         LET err == IF res.body.parses /\ Truthy(OptionalMessage(res.body.json))
                    THEN OptionalMessage(res.body.json)
                    ELSE JsString(res.statusText)
         IN \* throw new Error(err || `HTTP ${res.status}`)
            [outcome |-> Rejected(Error(JsToString(OrElse(err, JsString("HTTP " \o NatToString(res.status)))))),
             jsonCalls |-> 1]

\* Mutant: the transport failure is wrapped in a new Error.
AwaitFetchRejected_Wrapped(e) == Rejected(Error("Request failed: " \o e.message))

\* `const res = await fetch(...)` when fetch rejects with e: the async function
\* rejects with e, and the rest of its body does not run.
AwaitFetchRejected(e) == Rejected(e)

ApiIdle ==
    /\ apiPc = "idle"
    /\ apiFn = "none"
    /\ apiRes = NULL
    /\ apiTransport = NULL
    /\ apiHandleCalls = 0
    /\ apiJsonCalls = 0
    /\ apiOutcome = Pending

\* An API function is called: it builds the request and awaits fetch.
ApiCall(fn) ==
    /\ apiPc = "idle"
    /\ apiPc' = "fetching"
    /\ apiFn' = fn
    /\ UNCHANGED <<apiRes, apiTransport, apiHandleCalls, apiJsonCalls, apiOutcome>>
    /\ UNCHANGED <<cartVars, sessionVars, pageVars>>

\* fetch rejects: the transport call could not complete.
FetchRejects(e) ==
    /\ apiPc = "fetching"
    /\ apiPc' = "settled"
    /\ apiTransport' = Some(e)
    /\ apiOutcome' = AwaitFetchRejected(e)
    /\ UNCHANGED <<apiFn, apiRes, apiHandleCalls, apiJsonCalls>>
    /\ UNCHANGED <<cartVars, sessionVars, pageVars>>

\* fetch resolves with a Response: `return handleResponse<T>(res)`.
FetchResolves(res) ==
    /\ apiPc = "fetching"
    /\ apiPc' = "settled"
    /\ apiRes' = Some(res)
    /\ apiHandleCalls' = apiHandleCalls + 1
    /\ apiJsonCalls' = apiJsonCalls + handleResponse(res).jsonCalls
    /\ apiOutcome' = handleResponse(res).outcome
    /\ UNCHANGED <<apiFn, apiTransport>>
    /\ UNCHANGED <<cartVars, sessionVars, pageVars>>

\* The caller has observed the settled promise; the client is ready for a new call.
ApiReturn ==
    /\ apiPc = "settled"
    /\ apiPc' = "idle"
    /\ apiFn' = "none"
    /\ apiRes' = NULL
    /\ apiTransport' = NULL
    /\ apiHandleCalls' = 0
    /\ apiJsonCalls' = 0
    /\ apiOutcome' = Pending
    /\ UNCHANGED <<cartVars, sessionVars, pageVars>>

NextApi ==
    \/ \E fn \in ApiFunctions : ApiCall(fn)
    \/ \E e \in TransportErrors : FetchRejects(e)
    \/ \E res \in Responses : FetchResolves(res)
    \/ ApiReturn

\* ------------------------------------------------------------------------
\* Cart page (CartPage.tsx): values
\* ------------------------------------------------------------------------

MaxUserId == 1
MaxProducts == 2
MaxCartLen == 2
MaxInFlight == 2

\* currentUserId: number | null, as UserContext holds it.
UserIdValues == {NULL} \cup {Some(i) : i \in 0..MaxUserId}

\* !currentUserId: null and 0 are falsy.
Falsy(userId) == IF userId = NULL THEN TRUE ELSE Get(userId) = 0

ProductIds == 1..MaxProducts

\* CartItemDto of a product (one line item per product, quantity 1).
CartItemOf(p) == [id |-> p, productId |-> p, quantity |-> 1, subtotal |-> 10 * p]

\* The sequences of distinct elements of S of length at most n.
DistinctSeqs(S, n) ==
    {q \in UNION {[1..k -> S] : k \in 0..n} :
        \A i, j \in DOMAIN q : i # j => q[i] # q[j]}

\* What getCart can resolve with: the line items of the user's cart, in order.
Carts == {[i \in DOMAIN q |-> CartItemOf(q[i])] : q \in DistinctSeqs(ProductIds, MaxCartLen)}

\* What checkout can resolve with (CheckoutResultDto; the optional fields are
\* NULL when absent), and undefined, which handleResponse returns on a 204.
CheckoutResults ==
    {[t |-> "object", success |-> TRUE, message |-> "Order placed successfully",
      totalAmount |-> Some(30), purchasedItems |-> Some(<<CartItemOf(1)>>)],
     [t |-> "object", success |-> TRUE, message |-> "Order placed successfully",
      totalAmount |-> NULL, purchasedItems |-> NULL],
     [t |-> "object", success |-> FALSE, message |-> "Some items out of stock",
      totalAmount |-> Some(0), purchasedItems |-> Some(<<>>)],
     [t |-> "object", success |-> FALSE, message |-> "Payment failed",
      totalAmount |-> NULL, purchasedItems |-> NULL]}

\* What an API call can reject with: an Error, or a value that is not an Error
\* (a string, null, a plain object, here one with a message of its own).
Rejections ==
    {Error("Insufficient stock"), JsString("timeout"), JsNull,
     JsObject(JsString("Bad gateway"), Undefined)}

\* What checkout can reject with: the above, and an Error of its own.
CheckoutRejections == Rejections \cup {Error("Payment failed")}

\* err instanceof Error ? err.message : fallback
MessageOr(err, fallback) == IF err.t = "Error" THEN err.message ELSE fallback

\* The TypeError of reading `success` of undefined.
TypeErrorMessage == "Cannot read properties of undefined (reading 'success')"

\* An API promise the page awaits; live is FALSE once the component that
\* awaits it has unmounted (its state updates are then no-ops).
Request(op, userId, productId, live) ==
    [op |-> op, userId |-> userId, productId |-> productId, live |-> live]

InFlight(op) == {r \in BagToSet(pending) : r.op = op}

Issue(bag, r) == bag (+) SetToBag({r})
Settle(bag, r) == bag (-) SetToBag({r})

\* Every awaited promise loses its component.
Orphaned(bag) ==
    LET reqs == {[r EXCEPT !.live = FALSE] : r \in BagToSet(bag)}
        count(o) == IF [o EXCEPT !.live = TRUE] \in BagToSet(bag) THEN bag[[o EXCEPT !.live = TRUE]] ELSE 0
        old(o) == IF o \in BagToSet(bag) THEN bag[o] ELSE 0
    IN [o \in reqs |-> count(o) + old(o)]

Event(type, value) == [type |-> type, value |-> value]

\* The text entered into an input, as the value of an event.
Text(chars) == [t |-> "text", chars |-> chars]

\* The banner on the page when a handler was entered, as the value of an event.
Banner(text) == [t |-> "banner", text |-> text]

\* A string state that is truthy: neither null nor empty.
Shown(text) == text # NULL /\ Get(text) # ""

Mounted == route = "/cart"

\* ------------------------------------------------------------------------
\* Session context and persistent store (UserContext.tsx)
\* ------------------------------------------------------------------------

\* The state of the cart page other than the identity and the history.
cartPageVars == <<route, cartItems, loading, error, checkoutResult, pending>>

\* The entry setCurrentUserId leaves under USER_ID_STORAGE_KEY:
\* setItem(key, id.toString()) for a number, removeItem(key) for null.
PersistedEntry(id) == IF id # NULL THEN Some(NumberToString(Get(id))) ELSE NULL

\* Entries under the key that this application did not write.
ForeignEntries == {<<>>, <<"a", "b", "c">>, <<"1", "x">>, <<" ", "1">>, <<"1", ".", "5">>}

\* What the store can hold under the key when a session starts.
InitialStores ==
    {PersistedEntry(id) : id \in UserIdValues} \cup {Some(s) : s \in ForeignEntries}

\* Mutant: the mount effect tests the parsed id for truthiness.
LoadedUserId_TruthyId(stored) ==
    IF stored # NULL /\ Get(stored) # <<>>
    THEN LET id == parseInt(Get(stored))
         IN IF ~isNaN(id) /\ id.n # 0 THEN Some(id.n) ELSE NULL
    ELSE NULL

\* The mount effect, given what getItem returned: the id it passes to
\* setCurrentUserIdState, NULL when it sets nothing.
LoadedUserId(stored) ==
    IF stored # NULL /\ Get(stored) # <<>>
    THEN LET id == parseInt(Get(stored))
         IN IF ~isNaN(id) THEN Some(id.n) ELSE NULL
    ELSE NULL

\* The identity after the provider has rendered and its mount effect has run.
IdentityAtStart(stored) == IF LoadedUserId(stored) # NULL THEN LoadedUserId(stored) ELSE NULL

\* Mutant: null is stored like an id would be, the entry is never removed.
setCurrentUserId_NeverRemoves(id) ==
    /\ currentUserId' = id
    /\ storage' = (IF id # NULL THEN Some(NumberToString(Get(id))) ELSE storage)
    /\ identityCall' = Some(id)

\* setCurrentUserId(id)
setCurrentUserId(id) ==
    /\ currentUserId' = id
    /\ storage' = PersistedEntry(id)
    /\ identityCall' = Some(id)

\* clearUser()
clearUser == setCurrentUserId(NULL)

\* The provider renders for the first time: useState(null).
MountProvider ==
    /\ provider = "unmounted"
    /\ provider' = "rendered"
    /\ currentUserId' = NULL
    /\ lastEvent' = Event("mountProvider", Undefined)
    /\ UNCHANGED <<storage, identityCall>>
    /\ UNCHANGED <<apiVars, cartPageVars, pageVars>>

\* The mount effect of the provider runs.
MountEffect ==
    /\ provider = "rendered"
    /\ provider' = "initialized"
    /\ currentUserId' = (IF LoadedUserId(storage) # NULL THEN LoadedUserId(storage) ELSE currentUserId)
    /\ lastEvent' = Event("mountEffect", Undefined)
    /\ UNCHANGED <<storage, identityCall>>
    /\ UNCHANGED <<apiVars, cartPageVars, pageVars>>

\* A consumer of the context calls setCurrentUserId(id).
CallSetCurrentUserId(id) ==
    /\ provider = "initialized"
    /\ setCurrentUserId(id)
    /\ lastEvent' = Event("setCurrentUserId", Undefined)
    /\ UNCHANGED provider
    /\ UNCHANGED <<apiVars, cartPageVars, pageVars>>

\* A consumer of the context calls clearUser().
CallClearUser ==
    /\ provider = "initialized"
    /\ clearUser
    /\ lastEvent' = Event("clearUser", Undefined)
    /\ UNCHANGED provider
    /\ UNCHANGED <<apiVars, cartPageVars, pageVars>>

\* The session ends (the tab is closed or reloaded): the state of the provider
\* is discarded, the store keeps its entry.
UnmountProvider ==
    /\ provider # "unmounted"
    /\ provider' = "unmounted"
    /\ currentUserId' = NULL
    /\ lastEvent' = Event("unmountProvider", Undefined)
    /\ UNCHANGED <<storage, identityCall>>
    /\ UNCHANGED <<apiVars, cartPageVars, pageVars>>

MaxSessionId == 12

\* The ids the context's functions are called with: integers of either sign,
\* of one digit and of several.
SessionIds == {NULL} \cup {Some(i) : i \in (0 - MaxSessionId)..MaxSessionId}

NextSession ==
    \/ MountProvider
    \/ MountEffect
    \/ \E id \in SessionIds : CallSetCurrentUserId(id)
    \/ CallClearUser
    \/ UnmountProvider

\* The provider is mounted and initialized, the store holding what the
\* identity was persisted as.
SessionReady ==
    /\ provider = "initialized"
    /\ storage = PersistedEntry(currentUserId)
    /\ identityCall = NULL

\* Home, ProductDetail and Register are not mounted: their state is what
\* useState starts from.
PagesIdle ==
    /\ products = <<>>
    /\ homeLoading = TRUE
    /\ homeError = NULL
    /\ homeMessage = NULL
    /\ product = NULL
    /\ detailLoading = TRUE
    /\ detailError = NULL
    /\ quantity = 1
    /\ detailMessage = NULL
    /\ username = <<>>
    /\ email = <<>>
    /\ regLoading = FALSE
    /\ regError = NULL
    /\ timers = EmptyBag

\* ------------------------------------------------------------------------
\* Cart page (CartPage.tsx): render
\* ------------------------------------------------------------------------

\* What CartPage renders from its state.
CartView ==
    IF ~Mounted THEN [screen |-> "unmounted"]
    ELSE IF Falsy(currentUserId) THEN [screen |-> "null"]
    ELSE IF loading THEN [screen |-> "loading"]
    ELSE IF checkoutResult # NULL
         THEN [screen |-> "checkoutResult",
               title |-> IF Get(checkoutResult).success THEN "Checkout Successful!" ELSE "Checkout Failed",
               message |-> Get(checkoutResult).message]
    ELSE IF Len(cartItems) = 0 THEN [screen |-> "empty"]
    ELSE [screen |-> "cartList"]

\* The error banner of the cart view: `{error && <div>{error}</div>}`.
CartErrorBanner ==
    IF CartView.screen \in {"empty", "cartList"} /\ Shown(error) THEN error ELSE NULL

\* The "Remove" button of the i-th line item is on the page.
RemoveButtonRendered(i) == CartView.screen = "cartList" /\ i \in 1..Len(cartItems)

\* The "Proceed to Checkout" button is on the page.
CheckoutButtonRendered == CartView.screen = "cartList"

\* ------------------------------------------------------------------------
\* Cart page (CartPage.tsx): effects and handlers
\* ------------------------------------------------------------------------

CartInit ==
    /\ currentUserId \in UserIdValues
    /\ route = "/"
    /\ cartItems = <<>>
    /\ loading = TRUE
    /\ error = NULL
    /\ checkoutResult = NULL
    /\ pending = EmptyBag
    /\ lastEvent = Event("init", Undefined)

\* loadCart() of a component rendered for userId, with bag the promises awaited
\* so far: up to its `await getCart(currentUserId)`.
loadCart(userId, live, bag) ==
    IF Falsy(userId)
    THEN /\ pending' = bag
         /\ UNCHANGED <<loading, error>>
    ELSE /\ loading' = (IF live THEN TRUE ELSE loading)
         /\ error' = (IF live THEN NULL ELSE error)
         /\ pending' = Issue(bag, Request("getCart", Get(userId), 0, live))

\* Mutant: the mount effect does not redirect; an anonymous user stays on the
\* route and the cart is fetched for the absent id.
MountCartPage_NoRedirect ==
    /\ ~Mounted
    /\ BagCardinality(pending) < MaxInFlight
    /\ cartItems' = <<>>
    /\ checkoutResult' = NULL
    /\ route' = "/cart"
    /\ loading' = TRUE
    /\ error' = NULL
    /\ pending' = Issue(pending, Request("getCart", IF currentUserId = NULL THEN 0 ELSE Get(currentUserId), 0, TRUE))
    /\ lastEvent' = Event(IF Falsy(currentUserId) THEN "redirect" ELSE "mount", Undefined)
    /\ UNCHANGED currentUserId
    /\ UNCHANGED <<apiVars, sessionVars, pageVars>>

\* The /cart route is entered: CartPage mounts with its initial state, and its
\* effect redirects an anonymous user or starts loadCart().
MountCartPage ==
    /\ ~Mounted
    /\ BagCardinality(pending) < MaxInFlight
    /\ cartItems' = <<>>
    /\ checkoutResult' = NULL
    /\ IF Falsy(currentUserId)
       THEN /\ route' = "/register"
            /\ loading' = TRUE
            /\ error' = NULL
            /\ pending' = pending
            /\ lastEvent' = Event("redirect", Undefined)
       ELSE /\ route' = "/cart"
            /\ loading' = TRUE
            /\ error' = NULL
            /\ pending' = Issue(pending, Request("getCart", Get(currentUserId), 0, TRUE))
            /\ lastEvent' = Event("mount", Undefined)
    /\ UNCHANGED currentUserId
    /\ UNCHANGED <<apiVars, sessionVars, pageVars>>

\* Mutant: the fetched items are appended to the items held.
CartAfterFetch_Merged(held, data) == held \o data

\* `setCartItems(data)`: the items the page holds after a fetch.
CartAfterFetch(held, data) == data

\* The items fetched, as the value of an event, and whether they take the
\* place of other items: the page held items, and the first item fetched is
\* not the first item held.
Fetch(held, data) ==
    [t |-> "fetch", data |-> data,
     replaced |-> held # <<>> /\ data # <<>> /\ Head(data) # Head(held)]

\* getCart resolves: loadCart() continues after its await.
GetCartFulfilled(req, data) ==
    /\ req \in InFlight("getCart")
    /\ pending' = Settle(pending, req)
    /\ IF req.live
       THEN /\ cartItems' = CartAfterFetch(cartItems, data)
            /\ loading' = FALSE
            /\ lastEvent' = Event("getCartFulfilled", Fetch(cartItems, data))
       ELSE /\ UNCHANGED <<cartItems, loading>>
            /\ lastEvent' = Event("orphan", Undefined)
    /\ UNCHANGED <<currentUserId, route, error, checkoutResult>>
    /\ UNCHANGED <<apiVars, sessionVars, pageVars>>

\* getCart rejects: the catch and finally of loadCart().
GetCartRejected(req, err) ==
    /\ req \in InFlight("getCart")
    /\ pending' = Settle(pending, req)
    /\ IF req.live
       THEN /\ error' = Some(MessageOr(err, "Failed to load cart"))
            /\ loading' = FALSE
            /\ lastEvent' = Event("getCartRejected", err)
       ELSE /\ UNCHANGED <<error, loading>>
            /\ lastEvent' = Event("orphan", Undefined)
    /\ UNCHANGED <<currentUserId, route, cartItems, checkoutResult>>
    /\ UNCHANGED <<apiVars, sessionVars, pageVars>>

\* handleRemove(productId), up to its `await removeFromCart(...)`.
handleRemove(productId) ==
    /\ Mounted
    /\ BagCardinality(pending) < MaxInFlight
    /\ IF Falsy(currentUserId)
       THEN UNCHANGED <<error, pending>>
       ELSE /\ error' = NULL
            /\ pending' = Issue(pending, Request("removeFromCart", Get(currentUserId), productId, TRUE))
    /\ lastEvent' = Event("handleRemove", JsNumber(productId))
    /\ UNCHANGED <<currentUserId, route, cartItems, loading, checkoutResult>>
    /\ UNCHANGED <<apiVars, sessionVars, pageVars>>

\* Mutant: handleRemove ends when removeFromCart resolves, without loadCart().
RemoveFulfilled_NoReload(req) ==
    /\ req \in InFlight("removeFromCart")
    /\ pending' = Settle(pending, req)
    /\ lastEvent' = Event(IF req.live THEN "removeFulfilled" ELSE "orphan", Undefined)
    /\ UNCHANGED <<loading, error>>
    /\ UNCHANGED <<currentUserId, route, cartItems, checkoutResult>>
    /\ UNCHANGED <<apiVars, sessionVars, pageVars>>

\* removeFromCart resolves: handleRemove continues with `await loadCart()`.
RemoveFulfilled(req) ==
    /\ req \in InFlight("removeFromCart")
    /\ loadCart(Some(req.userId), req.live, Settle(pending, req))
    /\ lastEvent' = Event(IF req.live THEN "removeFulfilled" ELSE "orphan", Undefined)
    /\ UNCHANGED <<currentUserId, route, cartItems, checkoutResult>>
    /\ UNCHANGED <<apiVars, sessionVars, pageVars>>

\* removeFromCart rejects: the catch of handleRemove.
RemoveRejected(req, err) ==
    /\ req \in InFlight("removeFromCart")
    /\ pending' = Settle(pending, req)
    /\ IF req.live
       THEN /\ error' = Some(MessageOr(err, "Failed to remove item"))
            /\ lastEvent' = Event("removeRejected", err)
       ELSE /\ UNCHANGED error
            /\ lastEvent' = Event("orphan", Undefined)
    /\ UNCHANGED <<currentUserId, route, cartItems, loading, checkoutResult>>
    /\ UNCHANGED <<apiVars, sessionVars, pageVars>>

\* Mutant: no check of the local cart before the checkout request.
CheckoutBlocked_NoEmptyCheck(items) == FALSE

\* handleCheckout's guard `cartItems.length === 0`.
CheckoutBlocked(items) == Len(items) = 0

\* Mutant: handleCheckout without its setError(null).
handleCheckout_KeepsError ==
    /\ Mounted
    /\ BagCardinality(pending) < MaxInFlight
    /\ IF Falsy(currentUserId)
       THEN /\ UNCHANGED <<error, pending>>
            /\ lastEvent' = Event("handleCheckout", Banner(CartErrorBanner))
       ELSE IF CheckoutBlocked(cartItems)
       THEN /\ error' = Some("Your cart is empty")
            /\ pending' = pending
            /\ lastEvent' = Event("handleCheckout", Banner(CartErrorBanner))
       ELSE /\ error' = error
            /\ pending' = Issue(pending, Request("checkout", Get(currentUserId), 0, TRUE))
            /\ lastEvent' = Event("handleCheckout", Banner(CartErrorBanner))
    /\ UNCHANGED <<currentUserId, route, cartItems, loading, checkoutResult>>
    /\ UNCHANGED <<apiVars, sessionVars, pageVars>>

\* handleCheckout(), up to its `await checkout(currentUserId)`.
handleCheckout ==
    /\ Mounted
    /\ BagCardinality(pending) < MaxInFlight
    /\ IF Falsy(currentUserId)
       THEN /\ UNCHANGED <<error, pending>>
            /\ lastEvent' = Event("handleCheckout", Banner(CartErrorBanner))
       ELSE IF CheckoutBlocked(cartItems)
       THEN /\ error' = Some("Your cart is empty")
            /\ pending' = pending
            /\ lastEvent' = Event("handleCheckout", Banner(CartErrorBanner))
       ELSE /\ error' = NULL
            /\ pending' = Issue(pending, Request("checkout", Get(currentUserId), 0, TRUE))
            /\ lastEvent' = Event("handleCheckout", Banner(CartErrorBanner))
    /\ UNCHANGED <<currentUserId, route, cartItems, loading, checkoutResult>>
    /\ UNCHANGED <<apiVars, sessionVars, pageVars>>

\* Mutant: the local cart is cleared whatever the result says.
CartAfterCheckout_AlwaysClear(result, items) == <<>>

\* Mutant: the local cart is never cleared.
CartAfterCheckout_NeverClear(result, items) == items

\* `if (result.success) setCartItems([])`
CartAfterCheckout(result, items) == IF result.success THEN <<>> ELSE items

\* checkout resolves: handleCheckout continues after its await.
CheckoutFulfilled(req, result) ==
    /\ req \in InFlight("checkout")
    /\ pending' = Settle(pending, req)
    /\ IF ~req.live
       THEN /\ UNCHANGED <<checkoutResult, cartItems, error>>
            /\ lastEvent' = Event("orphan", Undefined)
       ELSE IF result = Undefined
       THEN \* setCheckoutResult(undefined); result.success throws; the catch
            /\ checkoutResult' = NULL
            /\ error' = Some(TypeErrorMessage)
            /\ UNCHANGED cartItems
            /\ lastEvent' = Event("checkoutFulfilled", result)
       ELSE /\ checkoutResult' = Some(result)
            /\ cartItems' = CartAfterCheckout(result, cartItems)
            /\ UNCHANGED error
            /\ lastEvent' = Event("checkoutFulfilled", result)
    /\ UNCHANGED <<currentUserId, route, loading>>
    /\ UNCHANGED <<apiVars, sessionVars, pageVars>>

\* checkout rejects: the catch of handleCheckout.
CheckoutRejected(req, err) ==
    /\ req \in InFlight("checkout")
    /\ pending' = Settle(pending, req)
    /\ IF req.live
       THEN /\ error' = Some(MessageOr(err, "Checkout failed"))
            /\ lastEvent' = Event("checkoutRejected", err)
       ELSE /\ UNCHANGED error
            /\ lastEvent' = Event("orphan", Undefined)
    /\ UNCHANGED <<currentUserId, route, cartItems, loading, checkoutResult>>
    /\ UNCHANGED <<apiVars, sessionVars, pageVars>>

\* navigate(to) away from the cart page: the component unmounts and its state
\* is discarded (a later mount starts from the useState initial values).
LeaveCartPage(to) ==
    /\ route' = to
    /\ pending' = Orphaned(pending)
    /\ cartItems' = <<>>
    /\ loading' = TRUE
    /\ error' = NULL
    /\ checkoutResult' = NULL
    /\ lastEvent' = Event("navigate", Undefined)
    /\ UNCHANGED currentUserId
    /\ UNCHANGED <<apiVars, sessionVars, pageVars>>

\* The "Remove" button of the i-th line item: CartItem calls onRemove(item.productId).
ClickRemove(i) ==
    /\ RemoveButtonRendered(i)
    /\ handleRemove(cartItems[i].productId)

\* The "Proceed to Checkout" button.
ClickCheckout ==
    /\ CheckoutButtonRendered
    /\ handleCheckout

\* The "Continue Shopping" button of the checkout result.
ClickContinueShopping ==
    /\ CartView.screen = "checkoutResult"
    /\ LeaveCartPage("/")

\* The "Start Shopping" button of the empty cart.
ClickStartShopping ==
    /\ CartView.screen = "empty"
    /\ LeaveCartPage("/")

\* The "Products" link of the header, on the cart page.
ClickProductsLink ==
    /\ Mounted
    /\ LeaveCartPage("/")

\* The "Logout" button of the header (clearUser): on the cart page the effect
\* then navigates to /register.
ClickLogout ==
    /\ ~Falsy(currentUserId)
    /\ clearUser
    /\ route' = (IF Mounted THEN "/register" ELSE route)
    /\ pending' = (IF Mounted THEN Orphaned(pending) ELSE pending)
    /\ cartItems' = <<>>
    /\ loading' = TRUE
    /\ error' = NULL
    /\ checkoutResult' = NULL
    /\ lastEvent' = Event("logout", Undefined)
    /\ UNCHANGED <<apiVars, provider, pageVars>>

\* The promises the page awaits settle, in any order.
Settles ==
    \/ \E req \in InFlight("getCart"), data \in Carts : GetCartFulfilled(req, data)
    \/ \E req \in InFlight("getCart"), err \in Rejections : GetCartRejected(req, err)
    \/ \E req \in InFlight("removeFromCart") : RemoveFulfilled(req)
    \/ \E req \in InFlight("removeFromCart"), err \in Rejections : RemoveRejected(req, err)
    \/ \E req \in InFlight("checkout"), result \in CheckoutResults \cup {Undefined} : CheckoutFulfilled(req, result)
    \/ \E req \in InFlight("checkout"), err \in CheckoutRejections : CheckoutRejected(req, err)

Navigation ==
    \/ MountCartPage
    \/ ClickContinueShopping
    \/ ClickStartShopping
    \/ ClickProductsLink
    \/ ClickLogout

\* The user acts through what the page renders.
NextCart ==
    \/ Settles
    \/ Navigation
    \/ \E i \in 1..MaxCartLen : ClickRemove(i)
    \/ ClickCheckout

\* The handlers are invoked directly, whatever the page renders.
NextCartHandlers ==
    \/ Settles
    \/ Navigation
    \/ \E p \in ProductIds : handleRemove(p)
    \/ handleCheckout

\* ------------------------------------------------------------------------
\* Application (App.tsx): routes, values and requests of the other pages
\* ------------------------------------------------------------------------

MaxStock == 2

\* No page is mounted: the application is not open.
Closed == "closed"

\* `/product/${product.id}`
ProductRoute(p) == "/product/" \o NatToString(p)
ProductRoutes == {ProductRoute(p) : p \in ProductIds}

\* useParams().id on a product route.
RouteParam(r) == NumberToString(CHOOSE p \in ProductIds : ProductRoute(p) = r)

Routes == {"/", "/cart", "/register"} \cup ProductRoutes

StockValues == 0..MaxStock

\* ProductDto
ProductOf(p, stock) == [id |-> p, name |-> "Product", price |-> 10 * p, stockQuantity |-> stock]

\* What getProducts can resolve with: the first n products of the catalog,
\* the first one out of stock.
Catalogs == {[i \in 1..n |-> ProductOf(i, i - 1)] : n \in 0..MaxProducts}

\* UserDto, as createUser resolves with it.
UserOf(id, name, mail) == [t |-> "object", id |-> id, username |-> name, email |-> mail]

\* AddToCartRequest
AddToCartRequest(productId, qty) == [productId |-> productId, quantity |-> qty]

\* CreateUserRequest
CreateUserRequest(name, mail) == [username |-> name, email |-> mail]

\* An API promise whose request carries a JSON body.
Call(op, userId, productId, body, live) ==
    [op |-> op, userId |-> userId, productId |-> productId, live |-> live, body |-> body]

\* A pending setTimeout callback: "clearMessage" is () => setMessage(null),
\* "navigate" is () => navigate("/register").
Timer(kind, live) == [kind |-> kind, live |-> live]

\* The callbacks left when the mounted page unmounts: a callback that only
\* sets the state of the page does nothing from then on and is dropped.
TimersAfterUnmount(bag) ==
    LET kept == {t \in BagToSet(bag) : t.kind = "navigate"}
        n == BagCardinality([t \in kept |-> bag[t]])
    IN IF n = 0 THEN EmptyBag ELSE [t \in {Timer("navigate", FALSE)} |-> n]

\* One more request or timer fits under the bound.
Room == BagCardinality(pending) + BagCardinality(timers) < MaxInFlight

\* The TypeError of reading `id` of undefined.
TypeErrorMessageId == "Cannot read properties of undefined (reading 'id')"

\* ------------------------------------------------------------------------
\* Product list (Home.tsx, ProductCard.tsx)
\* ------------------------------------------------------------------------

\* What Home renders from its state.
HomeView ==
    IF route # "/" THEN [screen |-> "unmounted"]
    ELSE IF homeLoading THEN [screen |-> "loading"]
    ELSE IF Shown(homeError) THEN [screen |-> "error", text |-> Get(homeError)]
    ELSE [screen |-> "list", message |-> IF Shown(homeMessage) THEN homeMessage ELSE NULL]

\* The i-th ProductCard is on the page.
CardRendered(i) == HomeView.screen = "list" /\ i \in 1..Len(products)

\* What the i-th ProductCard offers: the "Add to Cart" button or the
\* "Register to purchase" link.
CardAffordance(i) == IF ~Falsy(currentUserId) THEN "addToCart" ELSE "register"

\* The button of the i-th card is disabled when the product is out of stock.
CardButtonEnabled(i) ==
    /\ CardRendered(i)
    /\ CardAffordance(i) = "addToCart"
    /\ ~(products[i].stockQuantity <= 0)

HomeFresh ==
    /\ products' = <<>>
    /\ homeLoading' = TRUE
    /\ homeError' = NULL
    /\ homeMessage' = NULL

\* getProducts resolves: loadProducts() continues after its await.
GetProductsFulfilled(req, data) ==
    /\ req \in InFlight("getProducts")
    /\ req.live
    /\ pending' = Settle(pending, req)
    /\ products' = data
    /\ homeLoading' = FALSE
    /\ lastEvent' = Event("getProductsFulfilled", Undefined)
    /\ UNCHANGED <<homeError, homeMessage>>
    /\ UNCHANGED <<currentUserId, route, cartItems, loading, error, checkoutResult>>
    /\ UNCHANGED <<apiVars, sessionVars, detailVars, registerVars, timers>>

\* Mutant: loadProducts() without its finally; a failed fetch leaves the
\* loading flag set.
GetProductsRejected_NoFinally(req, err) ==
    /\ req \in InFlight("getProducts")
    /\ req.live
    /\ pending' = Settle(pending, req)
    /\ homeError' = Some(MessageOr(err, "Failed to load products"))
    /\ homeLoading' = homeLoading
    /\ lastEvent' = Event("getProductsRejected", err)
    /\ UNCHANGED <<products, homeMessage>>
    /\ UNCHANGED <<currentUserId, route, cartItems, loading, error, checkoutResult>>
    /\ UNCHANGED <<apiVars, sessionVars, detailVars, registerVars, timers>>

\* getProducts rejects: the catch and finally of loadProducts().
GetProductsRejected(req, err) ==
    /\ req \in InFlight("getProducts")
    /\ req.live
    /\ pending' = Settle(pending, req)
    /\ homeError' = Some(MessageOr(err, "Failed to load products"))
    /\ homeLoading' = FALSE
    /\ lastEvent' = Event("getProductsRejected", err)
    /\ UNCHANGED <<products, homeMessage>>
    /\ UNCHANGED <<currentUserId, route, cartItems, loading, error, checkoutResult>>
    /\ UNCHANGED <<apiVars, sessionVars, detailVars, registerVars, timers>>

\* The "Retry" button of the error view: loadProducts() up to its await.
ClickRetry ==
    /\ HomeView.screen = "error"
    /\ Room
    /\ homeLoading' = TRUE
    /\ homeError' = NULL
    /\ pending' = Issue(pending, Request("getProducts", 0, 0, TRUE))
    /\ lastEvent' = Event("retry", Undefined)
    /\ UNCHANGED <<products, homeMessage>>
    /\ UNCHANGED <<currentUserId, route, cartItems, loading, error, checkoutResult>>
    /\ UNCHANGED <<apiVars, sessionVars, detailVars, registerVars, timers>>

\* Mutant: Home.handleAddToCart without its check of the identity.
Home_handleAddToCart_NoGuard(productId, qty) ==
    /\ route = "/"
    /\ Room
    /\ homeMessage' = NULL
    /\ pending' = Issue(pending, Call("addToCart", IF currentUserId = NULL THEN 0 ELSE Get(currentUserId),
                                      productId, AddToCartRequest(productId, qty), TRUE))
    /\ lastEvent' = Event("Home.handleAddToCart", JsNumber(productId))
    /\ UNCHANGED <<products, homeLoading, homeError>>
    /\ UNCHANGED <<currentUserId, route, cartItems, loading, error, checkoutResult>>
    /\ UNCHANGED <<apiVars, sessionVars, detailVars, registerVars, timers>>

\* Home.handleAddToCart(productId, quantity), up to its `await addToCart(...)`.
Home_handleAddToCart(productId, qty) ==
    /\ route = "/"
    /\ Room
    /\ IF Falsy(currentUserId)
       THEN /\ homeMessage' = Some("Please register or login to add items to cart")
            /\ UNCHANGED pending
       ELSE /\ homeMessage' = NULL
            /\ pending' = Issue(pending, Call("addToCart", Get(currentUserId), productId,
                                              AddToCartRequest(productId, qty), TRUE))
    /\ lastEvent' = Event("Home.handleAddToCart", JsNumber(productId))
    /\ UNCHANGED <<products, homeLoading, homeError>>
    /\ UNCHANGED <<currentUserId, route, cartItems, loading, error, checkoutResult>>
    /\ UNCHANGED <<apiVars, sessionVars, detailVars, registerVars, timers>>

\* ProductCard.handleAddToCart of the card of item: onAddToCart(product.id, 1)
\* when a user id is held, nothing otherwise.
ProductCard_handleAddToCart(item) ==
    IF ~Falsy(currentUserId)
    THEN Home_handleAddToCart(item.id, 1)
    ELSE /\ route = "/"
         /\ lastEvent' = Event("ProductCard.handleAddToCart", Undefined)
         /\ UNCHANGED <<currentUserId, route, cartItems, loading, error, checkoutResult, pending>>
         /\ UNCHANGED <<apiVars, sessionVars, pageVars>>

\* The "Add to Cart" button of the i-th card.
ClickCardAddToCart(i) ==
    /\ CardButtonEnabled(i)
    /\ ProductCard_handleAddToCart(products[i])

\* addToCart resolves for Home.handleAddToCart: the success banner and the
\* timer that clears it.
HomeAddToCartFulfilled(req) ==
    /\ route = "/"
    /\ req \in InFlight("addToCart")
    /\ req.live
    /\ pending' = Settle(pending, req)
    /\ homeMessage' = Some("Item added to cart!")
    /\ timers' = Issue(timers, Timer("clearMessage", TRUE))
    /\ lastEvent' = Event("addToCartFulfilled", Undefined)
    /\ UNCHANGED <<products, homeLoading, homeError>>
    /\ UNCHANGED <<currentUserId, route, cartItems, loading, error, checkoutResult>>
    /\ UNCHANGED <<apiVars, sessionVars, detailVars, registerVars>>

\* addToCart rejects for Home.handleAddToCart: its catch.
HomeAddToCartRejected(req, err) ==
    /\ route = "/"
    /\ req \in InFlight("addToCart")
    /\ req.live
    /\ pending' = Settle(pending, req)
    /\ homeError' = Some(MessageOr(err, "Failed to add to cart"))
    /\ lastEvent' = Event("addToCartRejected", err)
    /\ UNCHANGED <<products, homeLoading, homeMessage>>
    /\ UNCHANGED <<currentUserId, route, cartItems, loading, error, checkoutResult>>
    /\ UNCHANGED <<apiVars, sessionVars, detailVars, registerVars, timers>>

\* The timer of a success banner of Home fires: setMessage(null).
HomeClearMessage(t) ==
    /\ route = "/"
    /\ t \in BagToSet(timers)
    /\ t.kind = "clearMessage"
    /\ t.live
    /\ timers' = Settle(timers, t)
    /\ homeMessage' = NULL
    /\ lastEvent' = Event("clearMessage", Undefined)
    /\ UNCHANGED <<products, homeLoading, homeError>>
    /\ UNCHANGED <<currentUserId, route, cartItems, loading, error, checkoutResult, pending>>
    /\ UNCHANGED <<apiVars, sessionVars, detailVars, registerVars>>

\* ------------------------------------------------------------------------
\* Product detail (ProductDetail.tsx)
\* ------------------------------------------------------------------------

\* A string read as a floating-point number in the syntax an input of type
\* "number" accepts: an optional "-", digits and/or a "." followed by digits,
\* an optional exponent. `valid` tells whether the whole string has that form.
FloatParts(s) ==
    LET negative == s # <<>> /\ Head(s) = "-"
        s1 == IF negative THEN Tail(s) ELSE s
        ni == LeadingDigits(s1)
        s2 == SubSeq(s1, ni + 1, Len(s1))
        hasFrac == s2 # <<>> /\ Head(s2) = "."
        nf == IF hasFrac THEN LeadingDigits(Tail(s2)) ELSE 0
        s3 == IF hasFrac THEN SubSeq(s2, nf + 2, Len(s2)) ELSE s2
        hasExp == s3 # <<>> /\ Head(s3) \in {"e", "E"}
        s4 == IF hasExp THEN Tail(s3) ELSE s3
        expSigned == hasExp /\ s4 # <<>> /\ Head(s4) \in {"-", "+"}
        s5 == IF expSigned THEN Tail(s4) ELSE s4
        ne == IF hasExp THEN LeadingDigits(s5) ELSE 0
        magnitude == DigitsValue(SubSeq(s5, 1, ne))
    IN [valid |-> /\ ni > 0 \/ nf > 0
                  /\ hasFrac => nf > 0
                  /\ IF hasExp THEN ne > 0 /\ ne = Len(s5) ELSE s3 = <<>>,
        negative |-> negative,
        int |-> SubSeq(s1, 1, ni),
        frac |-> IF hasFrac THEN SubSeq(s2, 2, nf + 1) ELSE <<>>,
        exp |-> IF expSigned /\ Head(s4) = "-" THEN 0 - magnitude ELSE magnitude]

\* e.target.value of the quantity input (type="number") after the user has
\* typed: the text when it is a valid floating-point number, else "".
NumberInputValue(typed) == IF FloatParts(typed).valid THEN typed ELSE <<>>

\* The onChange of the quantity input: parseInt(e.target.value, 10), and 1
\* when that is NaN.
QuantityFromInput(value) ==
    LET val == parseInt(value) IN IF isNaN(val) THEN 1 ELSE val.n

\* What the user types into the quantity input.
TypedQuantities ==
    {<<>>, <<"a", "b", "c">>, <<"0">>, <<"-", "1">>,
     NumberToString(MaxStock), NumberToString(MaxStock + 1),
     <<"1", ".", "9">>, <<".", "5">>, <<"1", "e", "1">>}

\* What ProductDetail renders from its state.
DetailView ==
    IF route \notin ProductRoutes THEN [screen |-> "unmounted"]
    ELSE IF detailLoading THEN [screen |-> "loading"]
    ELSE IF Shown(detailError) \/ product = NULL
         THEN [screen |-> "error",
               text |-> IF Shown(detailError) THEN Get(detailError) ELSE "Product not found"]
    ELSE [screen |-> "product",
          message |-> IF Shown(detailMessage) THEN detailMessage ELSE NULL,
          affordance |-> IF ~Falsy(currentUserId) THEN "addToCart" ELSE "register"]

\* The quantity input and the "Add to Cart" button are rendered and enabled.
AddToCartEnabled ==
    /\ DetailView.screen = "product"
    /\ DetailView.affordance = "addToCart"
    /\ ~(Get(product).stockQuantity <= 0)

DetailFresh ==
    /\ product' = NULL
    /\ detailLoading' = TRUE
    /\ detailError' = NULL
    /\ quantity' = 1
    /\ detailMessage' = NULL

\* getProductById resolves: loadProduct() continues after its await.
GetProductFulfilled(req, data) ==
    /\ req \in InFlight("getProductById")
    /\ req.live
    /\ pending' = Settle(pending, req)
    /\ product' = Some(data)
    /\ detailLoading' = FALSE
    /\ lastEvent' = Event("getProductFulfilled", Undefined)
    /\ UNCHANGED <<detailError, quantity, detailMessage>>
    /\ UNCHANGED <<currentUserId, route, cartItems, loading, error, checkoutResult>>
    /\ UNCHANGED <<apiVars, sessionVars, homeVars, registerVars, timers>>

\* getProductById rejects: the catch and finally of loadProduct().
GetProductRejected(req, err) ==
    /\ req \in InFlight("getProductById")
    /\ req.live
    /\ pending' = Settle(pending, req)
    /\ detailError' = Some(MessageOr(err, "Failed to load product"))
    /\ detailLoading' = FALSE
    /\ lastEvent' = Event("getProductRejected", err)
    /\ UNCHANGED <<product, quantity, detailMessage>>
    /\ UNCHANGED <<currentUserId, route, cartItems, loading, error, checkoutResult>>
    /\ UNCHANGED <<apiVars, sessionVars, homeVars, registerVars, timers>>

\* The user types into the quantity input.
ChangeQuantity(typed) ==
    /\ AddToCartEnabled
    /\ quantity' = QuantityFromInput(NumberInputValue(typed))
    /\ lastEvent' = Event("changeQuantity", Text(typed))
    /\ UNCHANGED <<product, detailLoading, detailError, detailMessage>>
    /\ UNCHANGED <<currentUserId, route, cartItems, loading, error, checkoutResult, pending>>
    /\ UNCHANGED <<apiVars, sessionVars, homeVars, registerVars, timers>>

\* quantity <= 0
QuantityTooSmall(qty) == qty <= 0

\* Mutant: the stock itself is refused.
QuantityExceedsStock_Inclusive(qty, stock) == qty >= stock

\* quantity > product.stockQuantity
QuantityExceedsStock(qty, stock) == qty > stock

\* `Only ${product.stockQuantity} items available in stock`
OnlyInStock(stock) == "Only " \o NatToString(stock) \o " items available in stock"

\* ProductDetail.handleAddToCart(), up to its `await addToCart(...)`.
ProductDetail_handleAddToCart ==
    /\ route \in ProductRoutes
    /\ Room
    /\ IF Falsy(currentUserId)
       THEN /\ detailMessage' = Some("Please register or login to add items to cart")
            /\ timers' = Issue(timers, Timer("navigate", TRUE))
            /\ UNCHANGED pending
       ELSE IF product = NULL
       THEN UNCHANGED <<detailMessage, timers, pending>>
       ELSE IF QuantityTooSmall(quantity)
       THEN /\ detailMessage' = Some("Quantity must be greater than 0")
            /\ UNCHANGED <<timers, pending>>
       ELSE IF QuantityExceedsStock(quantity, Get(product).stockQuantity)
       THEN /\ detailMessage' = Some(OnlyInStock(Get(product).stockQuantity))
            /\ UNCHANGED <<timers, pending>>
       ELSE /\ detailMessage' = NULL
            /\ pending' = Issue(pending, Call("addToCart", Get(currentUserId), Get(product).id,
                                              AddToCartRequest(Get(product).id, quantity), TRUE))
            /\ UNCHANGED timers
    /\ lastEvent' = Event("ProductDetail.handleAddToCart", Undefined)
    /\ UNCHANGED <<product, detailLoading, detailError, quantity>>
    /\ UNCHANGED <<currentUserId, route, cartItems, loading, error, checkoutResult>>
    /\ UNCHANGED <<apiVars, sessionVars, homeVars, registerVars>>

\* The "Add to Cart" button of the product view.
ClickDetailAddToCart ==
    /\ AddToCartEnabled
    /\ ProductDetail_handleAddToCart

\* addToCart resolves for ProductDetail.handleAddToCart: the success banner
\* and the timer that clears it.
DetailAddToCartFulfilled(req) ==
    /\ route \in ProductRoutes
    /\ req \in InFlight("addToCart")
    /\ req.live
    /\ pending' = Settle(pending, req)
    /\ detailMessage' = Some("Item added to cart!")
    /\ timers' = Issue(timers, Timer("clearMessage", TRUE))
    /\ lastEvent' = Event("addToCartFulfilled", Undefined)
    /\ UNCHANGED <<product, detailLoading, detailError, quantity>>
    /\ UNCHANGED <<currentUserId, route, cartItems, loading, error, checkoutResult>>
    /\ UNCHANGED <<apiVars, sessionVars, homeVars, registerVars>>

\* addToCart rejects for ProductDetail.handleAddToCart: its catch.
DetailAddToCartRejected(req, err) ==
    /\ route \in ProductRoutes
    /\ req \in InFlight("addToCart")
    /\ req.live
    /\ pending' = Settle(pending, req)
    /\ detailError' = Some(MessageOr(err, "Failed to add to cart"))
    /\ lastEvent' = Event("addToCartRejected", err)
    /\ UNCHANGED <<product, detailLoading, quantity, detailMessage>>
    /\ UNCHANGED <<currentUserId, route, cartItems, loading, error, checkoutResult>>
    /\ UNCHANGED <<apiVars, sessionVars, homeVars, registerVars, timers>>

\* The timer of a success banner of ProductDetail fires: setMessage(null).
DetailClearMessage(t) ==
    /\ route \in ProductRoutes
    /\ t \in BagToSet(timers)
    /\ t.kind = "clearMessage"
    /\ t.live
    /\ timers' = Settle(timers, t)
    /\ detailMessage' = NULL
    /\ lastEvent' = Event("clearMessage", Undefined)
    /\ UNCHANGED <<product, detailLoading, detailError, quantity>>
    /\ UNCHANGED <<currentUserId, route, cartItems, loading, error, checkoutResult, pending>>
    /\ UNCHANGED <<apiVars, sessionVars, homeVars, registerVars>>

\* ------------------------------------------------------------------------
\* Registration (Register.tsx)
\* ------------------------------------------------------------------------

\* The characters of a name: letters.
AtomChars == {"a", "b", "c"}

\* e.target.value of the email input (type="email") after the user has typed:
\* the text without its leading and trailing ASCII whitespace.
RECURSIVE StripAscii(_)
StripAscii(s) ==
    IF s # <<>> /\ IsAsciiSpace(Head(s)) THEN StripAscii(Tail(s))
    ELSE IF s # <<>> /\ IsAsciiSpace(s[Len(s)]) THEN StripAscii(SubSeq(s, 1, Len(s) - 1))
    ELSE s

EmailInputValue(typed) == StripAscii(typed)

\* The email input passes the form's native validation: its value is empty
\* (the field is not required) or has the form local@label(.label)*.
ValidEmailAddress(value) ==
    \/ value = <<>>
    \/ LET ats == {i \in 1..Len(value) : value[i] = "@"}
       IN /\ Cardinality(ats) = 1
          /\ LET at == CHOOSE i \in ats : TRUE
             IN /\ at > 1
                /\ at < Len(value)
                /\ \A i \in 1..(at - 1) : value[i] \in AtomChars \cup {"."}
                /\ \A i \in (at + 1)..Len(value) : value[i] \in AtomChars \cup {"."}
                /\ \A i \in at..Len(value) :
                       value[i] \in {"@", "."} => i < Len(value) /\ value[i + 1] \in AtomChars

\* /^[^\s@]+@[^\s@]+\.[^\s@]+$/.test(s)
emailRegexTest(s) ==
    LET ats == {i \in 1..Len(s) : s[i] = "@"}
    IN /\ \A i \in 1..Len(s) : ~IsSpace(s[i])
       /\ Cardinality(ats) = 1
       /\ LET at == CHOOSE i \in ats : TRUE
          IN /\ at > 1
             /\ \E d \in (at + 2)..(Len(s) - 1) : s[d] = "."

\* What the user types into the username and the email input.
TypedUsernames == {<<" ">>, <<" ", "b", " ">>}
TypedEmails ==
    {<<" ">>, <<NBSP>>, <<"a", "@", "b">>, <<" ", "a", "@", "b", ".", "c", " ">>,
     <<"a", "@", "b", ".", "c", NBSP>>}

\* What Register renders from its state.
RegisterView ==
    IF route # "/register" THEN [screen |-> "unmounted"]
    ELSE IF ~Falsy(currentUserId) THEN [screen |-> "alreadyLoggedIn"]
    ELSE [screen |-> "form",
          error |-> IF Shown(regError) THEN regError ELSE NULL,
          disabled |-> regLoading]

\* The inputs and the submit button are rendered and enabled.
FormEnabled == RegisterView.screen = "form" /\ ~RegisterView.disabled

RegisterFresh ==
    /\ username' = <<>>
    /\ email' = <<>>
    /\ regLoading' = FALSE
    /\ regError' = NULL

\* The user types into the username input: setUsername(e.target.value).
ChangeUsername(typed) ==
    /\ FormEnabled
    /\ username' = typed
    /\ lastEvent' = Event("changeUsername", Text(typed))
    /\ UNCHANGED <<email, regLoading, regError>>
    /\ UNCHANGED <<currentUserId, route, cartItems, loading, error, checkoutResult, pending>>
    /\ UNCHANGED <<apiVars, sessionVars, homeVars, detailVars, timers>>

\* The user types into the email input: setEmail(e.target.value).
ChangeEmail(typed) ==
    /\ FormEnabled
    /\ email' = EmailInputValue(typed)
    /\ lastEvent' = Event("changeEmail", Text(typed))
    /\ UNCHANGED <<username, regLoading, regError>>
    /\ UNCHANGED <<currentUserId, route, cartItems, loading, error, checkoutResult, pending>>
    /\ UNCHANGED <<apiVars, sessionVars, homeVars, detailVars, timers>>

\* username: username.trim()
SubmittedUsername(name) == trim(name)

\* email: email.trim()
SubmittedEmail(mail) == trim(mail)

\* Mutant: the validation of the username does not end the handler.
UsernameMissing_Never(name) == FALSE

\* !username.trim()
UsernameMissing(name) == trim(name) = <<>>

\* !email.trim()
EmailMissing(mail) == trim(mail) = <<>>

\* Mutant: handleSubmit without its setLoading(true).
handleSubmit_NoLoading ==
    /\ RegisterView.screen = "form"
    /\ Room
    /\ IF UsernameMissing(username)
       THEN /\ regError' = Some("Username is required")
            /\ UNCHANGED <<regLoading, pending>>
       ELSE IF EmailMissing(email)
       THEN /\ regError' = Some("Email is required")
            /\ UNCHANGED <<regLoading, pending>>
       ELSE IF ~emailRegexTest(email)
       THEN /\ regError' = Some("Please enter a valid email address")
            /\ UNCHANGED <<regLoading, pending>>
       ELSE /\ regError' = NULL
            /\ regLoading' = regLoading
            /\ pending' = Issue(pending, Call("createUser", 0, 0,
                                              CreateUserRequest(SubmittedUsername(username),
                                                                SubmittedEmail(email)), TRUE))
    /\ lastEvent' = Event("handleSubmit", Undefined)
    /\ UNCHANGED <<username, email>>
    /\ UNCHANGED <<currentUserId, route, cartItems, loading, error, checkoutResult>>
    /\ UNCHANGED <<apiVars, sessionVars, homeVars, detailVars, timers>>

\* handleSubmit(e), up to its `await createUser(...)`; the handler belongs to
\* the render of the form, which an identified user does not get.
handleSubmit ==
    /\ RegisterView.screen = "form"
    /\ Room
    /\ IF UsernameMissing(username)
       THEN /\ regError' = Some("Username is required")
            /\ UNCHANGED <<regLoading, pending>>
       ELSE IF EmailMissing(email)
       THEN /\ regError' = Some("Email is required")
            /\ UNCHANGED <<regLoading, pending>>
       ELSE IF ~emailRegexTest(email)
       THEN /\ regError' = Some("Please enter a valid email address")
            /\ UNCHANGED <<regLoading, pending>>
       ELSE /\ regError' = NULL
            /\ regLoading' = TRUE
            /\ pending' = Issue(pending, Call("createUser", 0, 0,
                                              CreateUserRequest(SubmittedUsername(username),
                                                                SubmittedEmail(email)), TRUE))
    /\ lastEvent' = Event("handleSubmit", Undefined)
    /\ UNCHANGED <<username, email>>
    /\ UNCHANGED <<currentUserId, route, cartItems, loading, error, checkoutResult>>
    /\ UNCHANGED <<apiVars, sessionVars, homeVars, detailVars, timers>>

\* The "Register" button: the form's controls are validated, and the submit
\* event is dispatched when they are valid; otherwise the browser reports
\* the invalid control and nothing is submitted.
ClickRegister ==
    /\ FormEnabled
    /\ IF ValidEmailAddress(email)
       THEN handleSubmit
       ELSE /\ lastEvent' = Event("submitBlocked", Undefined)
            /\ UNCHANGED <<currentUserId, route, cartItems, loading, error, checkoutResult, pending>>
            /\ UNCHANGED <<apiVars, sessionVars, pageVars>>

\* createUser rejects: the catch and finally of handleSubmit.
CreateUserRejected(req, err) ==
    /\ req \in InFlight("createUser")
    /\ pending' = Settle(pending, req)
    /\ IF req.live
       THEN /\ regError' = Some(MessageOr(err, "Failed to create user"))
            /\ regLoading' = FALSE
            /\ lastEvent' = Event("createUserRejected", err)
       ELSE /\ UNCHANGED <<regError, regLoading>>
            /\ lastEvent' = Event("orphan", Undefined)
    /\ UNCHANGED <<username, email>>
    /\ UNCHANGED <<currentUserId, route, cartItems, loading, error, checkoutResult>>
    /\ UNCHANGED <<apiVars, sessionVars, homeVars, detailVars, timers>>

\* ------------------------------------------------------------------------
\* Application (App.tsx, Header.tsx, main.tsx): routing
\* ------------------------------------------------------------------------

CartFresh ==
    /\ cartItems' = <<>>
    /\ loading' = TRUE
    /\ error' = NULL
    /\ checkoutResult' = NULL

\* The route on which the application settles when `to` is entered with
\* userId: the mount effect of CartPage sends an anonymous user on.
Landing(to, userId) == IF to = "/cart" /\ Falsy(userId) THEN "/register" ELSE to

\* The promises awaited once the page of route `at` has mounted for userId:
\* loadProducts(), loadCart() or loadProduct(parseInt(id, 10)).
MountRequests(at, userId, bag) ==
    IF at = "/" THEN Issue(bag, Request("getProducts", 0, 0, TRUE))
    ELSE IF at = "/cart" THEN Issue(bag, Request("getCart", Get(userId), 0, TRUE))
    ELSE IF at \in ProductRoutes
    THEN Issue(bag, Request("getProductById", 0, parseInt(RouteParam(at)).n, TRUE))
    ELSE bag

\* The promises left when the mounted page unmounts: one whose continuation
\* only sets the state of the page does nothing from then on and is dropped;
\* handleRemove goes on to loadCart(), handleSubmit to setCurrentUserId and
\* navigate.
Detached(bag) ==
    LET acting == {r \in BagToSet(bag) : r.op \in {"removeFromCart", "createUser"}}
    IN Orphaned([r \in acting |-> bag[r]])

\* The router shows `to` to a session of userId, bag and tbag being the
\* promises and timers outstanding: on a change of route the mounted page
\* unmounts and the page of the new route mounts with its initial state.
Render(to, userId, bag, tbag) ==
    IF to = route
    THEN /\ pending' = bag
         /\ timers' = tbag
         /\ UNCHANGED <<route, cartItems, loading, error, checkoutResult>>
         /\ UNCHANGED <<homeVars, detailVars, registerVars>>
    ELSE /\ route' = Landing(to, userId)
         /\ CartFresh
         /\ HomeFresh
         /\ DetailFresh
         /\ RegisterFresh
         /\ pending' = MountRequests(Landing(to, userId), userId, Detached(bag))
         /\ timers' = TimersAfterUnmount(tbag)

\* navigate(to), or a <Link to>, followed by the user.
Navigate(to, event) ==
    /\ route # Closed
    /\ to # route
    /\ Room
    /\ Render(to, currentUserId, pending, timers)
    /\ lastEvent' = Event(event, Undefined)
    /\ UNCHANGED currentUserId
    /\ UNCHANGED <<apiVars, sessionVars>>

\* What the store holds under the key when the application is opened.
AppStores == {PersistedEntry(id) : id \in UserIdValues}

\* The address the application is opened at, as the value of an event.
Url(url) == [t |-> "url", url |-> url]

\* The application is opened at url (or reloaded there): the provider mounts
\* and its effect runs, then the lazily loaded page of the route mounts.
OpenApp(url) ==
    /\ route = Closed
    /\ provider' = "initialized"
    /\ currentUserId' = IdentityAtStart(storage)
    /\ Render(url, IdentityAtStart(storage), EmptyBag, EmptyBag)
    /\ lastEvent' = Event("open", Url(url))
    /\ UNCHANGED <<storage, identityCall>>
    /\ UNCHANGED apiVars

\* The tab is closed: every component unmounts, the store keeps its entry.
CloseApp ==
    /\ route # Closed
    /\ route' = Closed
    /\ provider' = "unmounted"
    /\ currentUserId' = NULL
    /\ CartFresh
    /\ HomeFresh
    /\ DetailFresh
    /\ RegisterFresh
    /\ pending' = EmptyBag
    /\ timers' = EmptyBag
    /\ lastEvent' = Event("close", Undefined)
    /\ UNCHANGED <<storage, identityCall>>
    /\ UNCHANGED apiVars

\* Mutant: the identity is the first id, whatever the response holds.
RegisteredId_Fixed(user) == 1

\* `user.id`: the id handleSubmit passes to setCurrentUserId.
RegisteredId(user) == user.id

\* createUser resolves: handleSubmit continues with setCurrentUserId(user.id)
\* and navigate("/"), which act whether or not Register is still mounted.
CreateUserFulfilled(req, user) ==
    /\ req \in InFlight("createUser")
    /\ IF user = Undefined
       THEN \* user.id throws; the catch and the finally
            /\ pending' = Settle(pending, req)
            /\ regError' = (IF req.live THEN Some(TypeErrorMessageId) ELSE regError)
            /\ regLoading' = (IF req.live THEN FALSE ELSE regLoading)
            /\ lastEvent' = Event(IF req.live THEN "createUserFulfilled" ELSE "orphan", user)
            /\ UNCHANGED <<username, email, timers>>
            /\ UNCHANGED <<currentUserId, route, cartItems, loading, error, checkoutResult>>
            /\ UNCHANGED <<sessionVars, homeVars, detailVars>>
       ELSE /\ setCurrentUserId(Some(RegisteredId(user)))
            /\ Render("/", Some(RegisteredId(user)), Settle(pending, req), timers)
            /\ lastEvent' = Event("createUserFulfilled", user)
            /\ UNCHANGED provider
    /\ UNCHANGED apiVars

\* The timer set by ProductDetail.handleAddToCart for an anonymous user
\* fires: navigate("/register").
NavigateTimerFires(t) ==
    /\ t \in BagToSet(timers)
    /\ t.kind = "navigate"
    /\ Render("/register", currentUserId, pending, Settle(timers, t))
    /\ lastEvent' = Event("navigateTimer", Undefined)
    /\ UNCHANGED currentUserId
    /\ UNCHANGED <<apiVars, sessionVars>>

\* Header: the brand and "Products" links.
HeaderProducts == Navigate("/", "navigate")

\* Header: the "Cart" link, shown to an identified user.
HeaderCart ==
    /\ ~Falsy(currentUserId)
    /\ Navigate("/cart", "mount")

\* Header: the "Register / Login" link, shown to an anonymous user.
HeaderRegister ==
    /\ Falsy(currentUserId)
    /\ Navigate("/register", "navigate")

\* Header: the "Logout" button (clearUser); the pages other than the cart
\* stay mounted.
HeaderLogout ==
    /\ route # Closed
    /\ ClickLogout

\* ProductCard: the link around the image and the name of the i-th product.
ClickCardLink(i) ==
    /\ CardRendered(i)
    /\ Navigate(ProductRoute(products[i].id), "navigate")

\* ProductCard: the "Register to purchase" link.
ClickCardRegister(i) ==
    /\ CardRendered(i)
    /\ CardAffordance(i) = "register"
    /\ Navigate("/register", "navigate")

\* ProductDetail: the "Back to Products" button of the error and the product view.
ClickBack ==
    /\ DetailView.screen \in {"error", "product"}
    /\ Navigate("/", "navigate")

\* ProductDetail: the "Register / Login" button shown to an anonymous user.
ClickDetailRegister ==
    /\ DetailView.screen = "product"
    /\ DetailView.affordance = "register"
    /\ Navigate("/register", "navigate")

\* Register: "Go to Products" of the already-logged-in view.
ClickGoToProducts ==
    /\ RegisterView.screen = "alreadyLoggedIn"
    /\ Navigate("/", "navigate")

\* Register: "View Cart" of the already-logged-in view.
ClickViewCart ==
    /\ RegisterView.screen = "alreadyLoggedIn"
    /\ Navigate("/cart", "mount")

\* CartPage: "Continue Shopping" and "Start Shopping", Home mounting.
ClickShopping ==
    /\ CartView.screen \in {"checkoutResult", "empty"}
    /\ Navigate("/", "navigate")

\* The promises and timers of the pages settle, in any order.
AppSettles ==
    \/ Settles
    \/ \E req \in InFlight("getProducts"), data \in Catalogs : GetProductsFulfilled(req, data)
    \/ \E req \in InFlight("getProducts"), err \in Rejections : GetProductsRejected(req, err)
    \/ \E req \in InFlight("addToCart") : HomeAddToCartFulfilled(req)
    \/ \E req \in InFlight("addToCart"), err \in Rejections : HomeAddToCartRejected(req, err)
    \/ \E t \in BagToSet(timers) : HomeClearMessage(t)
    \/ \E req \in InFlight("getProductById"), stock \in StockValues :
           GetProductFulfilled(req, ProductOf(req.productId, stock))
    \/ \E req \in InFlight("getProductById"), err \in Rejections : GetProductRejected(req, err)
    \/ \E req \in InFlight("addToCart") : DetailAddToCartFulfilled(req)
    \/ \E req \in InFlight("addToCart"), err \in Rejections : DetailAddToCartRejected(req, err)
    \/ \E t \in BagToSet(timers) : DetailClearMessage(t)
    \/ \E req \in InFlight("createUser"), id \in 0..MaxUserId :
           CreateUserFulfilled(req, UserOf(id, req.body.username, req.body.email))
    \/ \E req \in InFlight("createUser") : CreateUserFulfilled(req, Undefined)
    \/ \E req \in InFlight("createUser"), err \in Rejections : CreateUserRejected(req, err)

\* The user opens and closes the application and follows its links.
AppNavigation ==
    \/ \E url \in Routes : OpenApp(url)
    \/ CloseApp
    \/ HeaderProducts
    \/ HeaderCart
    \/ HeaderRegister
    \/ HeaderLogout
    \/ \E i \in 1..MaxProducts : ClickCardLink(i)
    \/ \E i \in 1..MaxProducts : ClickCardRegister(i)
    \/ ClickBack
    \/ ClickDetailRegister
    \/ ClickGoToProducts
    \/ ClickViewCart
    \/ ClickShopping

\* The user acts through what the pages render.
NextApp ==
    \/ AppSettles
    \/ AppNavigation
    \/ \E i \in 1..MaxCartLen : ClickRemove(i)
    \/ ClickCheckout
    \/ ClickRetry
    \/ \E i \in 1..MaxProducts : ClickCardAddToCart(i)
    \/ \E typed \in TypedQuantities : ChangeQuantity(typed)
    \/ ClickDetailAddToCart
    \/ \E typed \in TypedUsernames : ChangeUsername(typed)
    \/ \E typed \in TypedEmails : ChangeEmail(typed)
    \/ ClickRegister

\* The handlers of Home, ProductCard, ProductDetail and Register are invoked
\* directly, whatever the pages render, and the form is submitted whatever
\* its controls hold.
NextAppHandlers ==
    \/ AppSettles
    \/ AppNavigation
    \/ \E i \in 1..MaxCartLen : ClickRemove(i)
    \/ ClickCheckout
    \/ ClickRetry
    \/ \E p \in ProductIds : Home_handleAddToCart(p, 1)
    \/ \E i \in DOMAIN products : ProductCard_handleAddToCart(products[i])
    \/ \E typed \in TypedQuantities : ChangeQuantity(typed)
    \/ ProductDetail_handleAddToCart
    \/ \E t \in BagToSet(timers) : NavigateTimerFires(t)
    \/ \E typed \in TypedUsernames : ChangeUsername(typed)
    \/ \E typed \in TypedEmails : ChangeEmail(typed)
    \/ handleSubmit

\* ------------------------------------------------------------------------
\* Specifications
\* ------------------------------------------------------------------------

\* The cart page while the API client is studied: not mounted, anonymous.
CartIdle ==
    /\ currentUserId = NULL
    /\ route = "/"
    /\ cartItems = <<>>
    /\ loading = TRUE
    /\ error = NULL
    /\ checkoutResult = NULL
    /\ pending = EmptyBag
    /\ lastEvent = Event("init", Undefined)

Init == ApiIdle /\ CartIdle /\ SessionReady /\ PagesIdle
Next == NextApi
Spec == Init /\ [][Next]_vars

InitCart == ApiIdle /\ CartInit /\ SessionReady /\ PagesIdle
SpecCart == InitCart /\ [][NextCart]_vars
SpecCartHandlers == InitCart /\ [][NextCartHandlers]_vars

\* A session not yet started: the provider is not mounted, the store holds
\* what an earlier session or another writer left.
InitSession ==
    /\ ApiIdle
    /\ CartIdle
    /\ PagesIdle
    /\ provider = "unmounted"
    /\ storage \in InitialStores
    /\ identityCall = NULL
SpecSession == InitSession /\ [][NextSession]_vars

\* The application not yet opened.
InitApp ==
    /\ ApiIdle
    /\ PagesIdle
    /\ currentUserId = NULL
    /\ route = Closed
    /\ cartItems = <<>>
    /\ loading = TRUE
    /\ error = NULL
    /\ checkoutResult = NULL
    /\ pending = EmptyBag
    /\ lastEvent = Event("init", Undefined)
    /\ provider = "unmounted"
    /\ storage \in AppStores
    /\ identityCall = NULL
SpecApp == InitApp /\ [][NextApp]_vars
SpecAppHandlers == InitApp /\ [][NextAppHandlers]_vars

\* ------------------------------------------------------------------------
\* Claims about the API client (checked under Spec)
\* ------------------------------------------------------------------------

Settled == apiPc = "settled"
GotResponse == Settled /\ apiRes # NULL
NonOkSettled == GotResponse /\ ~Ok(Get(apiRes))
HttpStatusMessage(res) == "HTTP " \o NatToString(res.status)

\* The error body parses as JSON and carries a message (a message field that
\* is null or the empty string counts as none).
CarriesMessage(body) ==
    /\ body.parses
    /\ body.json.t = "object"
    /\ body.json.message \notin {Undefined, JsNull, JsString("")}

\* The error body carries no message that is not a string.
MessageAbsentOrString(body) ==
    body.parses /\ body.json.t = "object" => body.json.message.t \in {"undefined", "null", "string"}

\* C1: for every non-2xx response the call rejects with an Error whose message
\* is non-empty and is body.message when the error body parses as JSON and
\* carries a message, else the statusText when that is non-empty, else
\* "HTTP {status}".
C1_AsStated ==
    NonOkSettled =>
        LET res == Get(apiRes) IN
        /\ apiOutcome.state = "rejected"
        /\ apiOutcome.value.t = "Error"
        /\ apiOutcome.value.message # ""
        /\ IF CarriesMessage(res.body)
           THEN res.body.json.message = JsString(apiOutcome.value.message)
           ELSE IF res.statusText # ""
           THEN apiOutcome.value.message = res.statusText
           ELSE apiOutcome.value.message = HttpStatusMessage(res)

\* The statement of C1 holds of every non-2xx response whose body.message is
\* absent, null or a string.
C1_HoldsForStringMessages ==
    (NonOkSettled => MessageAbsentOrString(Get(apiRes).body)) => C1_AsStated

\* C2: for every response with status 204 the call resolves with undefined and
\* res.json() is never invoked.
C2_NoContentResolvesUndefined ==
    GotResponse /\ Get(apiRes).status = 204 =>
        /\ apiOutcome = Fulfilled(Undefined)
        /\ apiJsonCalls = 0

C2_Witness ==
    /\ GotResponse
    /\ Get(apiRes).status = 204
    /\ apiFn = "deleteUser"
    /\ apiOutcome.state = "fulfilled"

\* C3 as stated: for every 2xx response whose body fails to parse as JSON the
\* call rejects with the parse error.
C3_AsStated ==
    GotResponse /\ Ok(Get(apiRes)) /\ ~Get(apiRes).body.parses =>
        apiOutcome = Rejected(ParseError)

\* C3 amended: for every 2xx response other than a 204 whose body fails to
\* parse as JSON the call rejects with the parse error; it never resolves.
C3_MalformedBodyRejects ==
    GotResponse /\ Ok(Get(apiRes)) /\ Get(apiRes).status # 204 /\ ~Get(apiRes).body.parses =>
        /\ apiOutcome = Rejected(ParseError)
        /\ apiJsonCalls = 1

C3_Witness ==
    /\ GotResponse
    /\ Get(apiRes).status = 200
    /\ ~Get(apiRes).body.parses
    /\ apiFn = "getProducts"
    /\ apiOutcome.state = "rejected"

\* C4 as stated: for addToCart, removeFromCart and deleteUser every 2xx
\* response resolves with undefined and no body parse is attempted, whatever the
\* status code and the body; such a call rejects only on a transport failure or
\* a non-2xx status.
C4_AsStated ==
    Settled /\ apiFn \in NoContentOps =>
        /\ apiRes # NULL /\ Ok(Get(apiRes)) =>
               apiOutcome = Fulfilled(Undefined) /\ apiJsonCalls = 0
        /\ apiOutcome.state = "rejected" =>
               apiTransport # NULL \/ ~Ok(Get(apiRes))

\* C5: when fetch rejects, the API function rejects with that same value, and
\* neither handleResponse nor res.json() runs.
C5_TransportFailurePropagates ==
    Settled /\ apiTransport # NULL =>
        /\ apiOutcome = Rejected(Get(apiTransport))
        /\ apiHandleCalls = 0
        /\ apiJsonCalls = 0

C5_Witness ==
    /\ Settled
    /\ apiFn = "getProducts"
    /\ apiTransport = Some(Error("Network error"))
    /\ apiOutcome.state = "rejected"

\* C6: checkout rejects only for a transport failure, a non-2xx status or a
\* body that does not parse; a 2xx response whose body has success = false
\* resolves with that body unchanged.
C6_CheckoutFailureFlagResolves ==
    Settled /\ apiFn = "checkout" =>
        /\ apiOutcome.state = "rejected" =>
               \/ apiTransport # NULL
               \/ ~Ok(Get(apiRes))
               \/ ~Get(apiRes).body.parses
        /\ (/\ apiRes # NULL
            /\ Ok(Get(apiRes))
            /\ Get(apiRes).body.parses
            /\ Get(apiRes).body.json.t = "object"
            /\ Get(apiRes).body.json.success = JsBool(FALSE)) =>
               apiOutcome = Fulfilled(Get(apiRes).body.json)

C6_Witness ==
    /\ Settled
    /\ apiFn = "checkout"
    /\ apiRes # NULL
    /\ Get(apiRes).status = 200
    /\ apiOutcome.state = "fulfilled"
    /\ apiOutcome.value.t = "object"
    /\ apiOutcome.value.success = JsBool(FALSE)
    /\ apiOutcome.value.message = JsString("Server error")

\* ------------------------------------------------------------------------
\* Claims about the cart page (checked under SpecCart and SpecCartHandlers)
\* ------------------------------------------------------------------------

\* The number of promises of one API function in a bag.
CountOf(bag, op) ==
    BagCardinality([r \in {x \in BagToSet(bag) : x.op = op} |-> bag[r]])

\* This step is the continuation of handleCheckout after checkout resolved
\* with a CheckoutResultDto whose success flag is s.
CheckoutResolvedWith(s) ==
    /\ lastEvent'.type = "checkoutFulfilled"
    /\ lastEvent'.value.t = "object"
    /\ lastEvent'.value.success = s
    /\ CountOf(pending', "checkout") < CountOf(pending, "checkout")

\* C7 as stated: when checkout resolves with success = false the page stores
\* the result, shows the failure banner with the result's message, leaves the
\* cart items as they were and sets no error.
C7_AsStated ==
    [][CheckoutResolvedWith(FALSE) =>
           /\ checkoutResult' = Some(lastEvent'.value)
           /\ CartView'.screen = "checkoutResult"
           /\ CartView'.title = "Checkout Failed"
           /\ CartView'.message = lastEvent'.value.message
           /\ cartItems' = cartItems
           /\ error' = error]_vars

\* C8: when checkout resolves with success = true the page stores the result
\* and its cart items become empty.
C8_SuccessfulCheckoutClearsCart ==
    [][CheckoutResolvedWith(TRUE) =>
           /\ checkoutResult' = Some(lastEvent'.value)
           /\ cartItems' = <<>>]_vars

\* A successful checkout with a total and a purchased-items snapshot has just
\* resolved on the mounted page.
C8_Witness ==
    /\ Mounted
    /\ lastEvent.type = "checkoutFulfilled"
    /\ lastEvent.value.t = "object"
    /\ lastEvent.value.success
    /\ lastEvent.value.totalAmount # NULL
    /\ lastEvent.value.purchasedItems # NULL
    /\ checkoutResult = Some(lastEvent.value)
    /\ cartItems = <<>>

\* C9 as stated: once a checkout result exists, the page renders the
\* checkout-result view (never the cart list, the empty cart or the loading
\* indicator) for as long as it is mounted.
C9_AsStated ==
    Mounted /\ checkoutResult # NULL => CartView.screen = "checkoutResult"

\* C10: a checkout request is issued only while the local cart holds at least
\* one item; handleCheckout on an empty local cart sets the error "Your cart is
\* empty" and issues nothing; and a checkout result appears only in the step
\* that settles such a request.
C10_CheckoutOnlyFromPopulatedCart ==
    [][/\ CountOf(pending', "checkout") > CountOf(pending, "checkout") =>
              Len(cartItems) > 0
       /\ (/\ lastEvent'.type = "handleCheckout"
           /\ Mounted
           /\ ~Falsy(currentUserId)
           /\ Len(cartItems) = 0
           /\ BagCardinality(pending) < MaxInFlight) =>
              error' = Some("Your cart is empty") /\ pending' = pending
       /\ checkoutResult = NULL /\ checkoutResult' # NULL =>
              CountOf(pending', "checkout") < CountOf(pending, "checkout")]_vars

\* handleCheckout has just run on a loaded, empty cart.
C10_Witness ==
    /\ Mounted
    /\ ~loading
    /\ lastEvent.type = "handleCheckout"
    /\ Len(cartItems) = 0
    /\ error = Some("Your cart is empty")
    /\ CountOf(pending, "checkout") = 0

\* C11: when an anonymous user enters the cart route, the page navigates to the
\* registration route at once, renders nothing of the cart and issues no
\* getCart request.
C11_AnonymousCartRedirects ==
    [][(/\ currentUserId = NULL
        /\ ~Mounted
        /\ lastEvent'.type \in {"redirect", "mount"}) =>
           /\ route' = "/register"
           /\ CartView'.screen = "unmounted"
           /\ CountOf(pending', "getCart") = CountOf(pending, "getCart")
           /\ pending' = pending]_vars

\* The page has just redirected an anonymous user who came from the product list.
C11_Witness ==
    /\ currentUserId = NULL
    /\ lastEvent.type = "redirect"
    /\ route = "/register"
    /\ pending = EmptyBag

\* ------------------------------------------------------------------------
\* Claims about the session context (checked under SpecSession)
\* ------------------------------------------------------------------------

\* The store holds the string form of the current user id, and no entry when
\* the session is anonymous.
StoreMirrorsIdentity ==
    IF currentUserId = NULL
    THEN storage = NULL
    ELSE storage = Some(NumberToString(Get(currentUserId)))

\* The entry is one setCurrentUserId can have written: the decimal form of an
\* integer.
WrittenByApp(entry) ==
    /\ entry # <<>>
    /\ ~isNaN(parseInt(entry))
    /\ NumberToString(parseInt(entry).n) = entry

\* C12 as stated: in every state after the initialization of the session
\* context, the store holds under the key the string form of the current user
\* id, and no entry exactly when the session is anonymous.
C12_AsStated ==
    provider = "initialized" => StoreMirrorsIdentity

\* C12 amended: the same, in every state after an initialization that found no
\* entry or the string form of an integer under the key, and in every state
\* after a setCurrentUserId or clearUser call.
C12_StoreMirrorsIdentity ==
    (/\ provider = "initialized"
     /\ \/ lastEvent.type \in {"setCurrentUserId", "clearUser"}
        \/ storage = NULL
        \/ WrittenByApp(Get(storage))) => StoreMirrorsIdentity

\* A logout in a session that started identified from the store.
C12_Witness ==
    /\ provider = "initialized"
    /\ lastEvent.type = "clearUser"
    /\ identityCall = Some(NULL)
    /\ currentUserId = NULL
    /\ storage = NULL

\* C13: a session context initialized after setCurrentUserId(id) holds
\* currentUserId = id, for every integer id, and one initialized after
\* clearUser() is anonymous.
C13_PersistReadBackRoundTrip ==
    provider = "initialized" /\ identityCall # NULL => currentUserId = Get(identityCall)

\* A new session has just initialized after setCurrentUserId(0) in an earlier one.
C13_Witness ==
    /\ provider = "initialized"
    /\ lastEvent.type = "mountEffect"
    /\ identityCall = Some(Some(0))
    /\ currentUserId = Some(0)
    /\ storage = Some(<<"0">>)

\* ------------------------------------------------------------------------
\* C14: validation of the registration form fails fast
\* ------------------------------------------------------------------------

\* A string that is empty or made of whitespace only.
Blank(s) == \A i \in 1..Len(s) : IsSpace(s[i])

\* C14: when handleSubmit runs with a username that is empty or
\* whitespace-only, the error is "Username is required"; otherwise, with an
\* email that is empty or whitespace-only, it is "Email is required";
\* otherwise, with an email that is malformed even once trimmed, it is
\* "Please enter a valid email address". In each case the error is set in the
\* step of the handler itself, the form does not enter its loading state and
\* no createUser request is issued.
C14_ValidationFailsFast ==
    [][lastEvent'.type = "handleSubmit"
       /\ (Blank(username) \/ Blank(email) \/ ~emailRegexTest(trim(email)))
       => /\ regError' = Some(IF Blank(username) THEN "Username is required"
                              ELSE IF Blank(email) THEN "Email is required"
                              ELSE "Please enter a valid email address")
          /\ pending' = pending
          /\ regLoading' = regLoading]_vars

\* A submit with a whitespace-only email was refused with no request issued.
C14_Witness ==
    /\ lastEvent.type = "handleSubmit"
    /\ ~Blank(username)
    /\ email = <<NBSP>>
    /\ regError = Some("Email is required")
    /\ InFlight("createUser") = {}

\* ------------------------------------------------------------------------
\* C15: surrounding whitespace and the registration request
\* ------------------------------------------------------------------------

\* The username and the email are valid once surrounding whitespace is trimmed.
ValidOnceTrimmed == ~Blank(username) /\ emailRegexTest(trim(email))

\* The createUser request for the trimmed username and the trimmed email.
TrimmedRegistration ==
    Call("createUser", 0, 0, CreateUserRequest(trim(username), trim(email)), TRUE)

\* C15 (as stated): whenever the user submits the registration form with a
\* username and an email that are valid once surrounding whitespace is
\* trimmed, createUser is issued with exactly the trimmed username and the
\* trimmed email; surrounding whitespace alone stops no submission.
C15_AsStated ==
    [][lastEvent'.type \in {"handleSubmit", "submitBlocked"} /\ ValidOnceTrimmed
       => pending' = Issue(pending, TrimmedRegistration)]_vars

\* What holds: every submit event the form dispatches for a username and an
\* email valid once trimmed issues createUser with the trimmed values.
C15_HoldsForDispatchedSubmits ==
    [][lastEvent'.type = "handleSubmit" /\ ValidOnceTrimmed
       => pending' = Issue(pending, TrimmedRegistration)]_vars

\* ------------------------------------------------------------------------
\* C16: the stock guard of the product detail page
\* ------------------------------------------------------------------------

\* C16: when an identified user's ProductDetail.handleAddToCart runs on a
\* loaded product, a quantity of 0 or less yields the message "Quantity must
\* be greater than 0" and a quantity above the stock last fetched yields
\* "Only {stock} items available in stock", no request being issued in
\* either case; every quantity from 1 up to the stock, the stock itself
\* included, issues one addToCart request carrying that quantity.
C16_StockGuard ==
    [][lastEvent'.type = "ProductDetail.handleAddToCart" /\ ~Falsy(currentUserId) /\ product # NULL
       => LET stock == Get(product).stockQuantity
          IN /\ quantity <= 0
                => /\ detailMessage' = Some("Quantity must be greater than 0")
                   /\ pending' = pending
             /\ quantity > stock /\ quantity > 0
                => /\ detailMessage' = Some("Only " \o NatToString(stock) \o " items available in stock")
                   /\ pending' = pending
             /\ 0 < quantity /\ quantity <= stock
                => pending' = Issue(pending, Call("addToCart", Get(currentUserId), Get(product).id,
                                                  AddToCartRequest(Get(product).id, quantity), TRUE))]_vars

\* The whole stock was asked for and the request was sent.
C16_Witness ==
    /\ lastEvent.type = "ProductDetail.handleAddToCart"
    /\ product # NULL
    /\ quantity = MaxStock
    /\ Get(product).stockQuantity = MaxStock
    /\ \E r \in InFlight("addToCart") : r.live /\ r.body.quantity = MaxStock

\* ------------------------------------------------------------------------
\* C17: normalization of the quantity input
\* ------------------------------------------------------------------------

\* The number a numeric text denotes, truncated toward zero: the digits that
\* stand before the decimal point once the exponent has moved it.
TruncatedValue(s) ==
    LET f == FloatParts(s)
        digits == f.int \o f.frac
        point == Len(f.int) + f.exp
        magnitude == IF point <= 0 THEN 0
                     ELSE IF point <= Len(digits) THEN DigitsValue(SubSeq(digits, 1, point))
                     ELSE DigitsValue(digits) * 10 ^ (point - Len(digits))
    IN IF f.negative THEN 0 - magnitude ELSE magnitude

\* The quantity the statement gives an input text: 1 when the text is empty
\* or not numeric, else its number truncated toward zero.
QuantityAsStated(typed) ==
    IF typed = <<>> \/ ~FloatParts(typed).valid THEN 1 ELSE TruncatedValue(typed)

\* C17 (as stated): after every change of the quantity input the stored
\* quantity is the integer obtained by parsing the text and truncating it
\* toward zero, or 1 if the text is empty or non-numeric.
C17_AsStated ==
    [][lastEvent'.type = "changeQuantity" => quantity' = QuantityAsStated(lastEvent'.value.chars)]_vars

\* What holds: the stored quantity is always an integer, and it is the
\* truncated number whenever the text has digits before its decimal point
\* and no exponent.
C17_HoldsWithoutLeadingPointOrExponent ==
    [][lastEvent'.type = "changeQuantity"
       => /\ quantity' \in Int
          /\ LET f == FloatParts(lastEvent'.value.chars)
             IN f.valid /\ f.int # <<>> /\ f.exp = 0
                => quantity' = TruncatedValue(lastEvent'.value.chars)]_vars

\* ------------------------------------------------------------------------
\* C18: an anonymous session issues no addToCart request
\* ------------------------------------------------------------------------

AddToCartHandlers ==
    {"ProductCard.handleAddToCart", "Home.handleAddToCart", "ProductDetail.handleAddToCart"}

\* C18: while the session is anonymous no step issues an addToCart request:
\* every product card and the product view offer the way to the
\* registration instead of the add-to-cart button, and each of
\* ProductCard.handleAddToCart, Home.handleAddToCart and
\* ProductDetail.handleAddToCart, when invoked all the same, returns with no
\* request issued.
C18_AnonymousNeverAddsToCart ==
    [][currentUserId = NULL
       => /\ CountOf(pending', "addToCart") <= CountOf(pending, "addToCart")
          /\ \A i \in 1..Len(products) : CardRendered(i) => CardAffordance(i) = "register"
          /\ DetailView.screen = "product" => DetailView.affordance = "register"
          /\ lastEvent'.type \in AddToCartHandlers => pending' = pending]_vars

\* Home.handleAddToCart was invoked for an anonymous session and refused.
C18_Witness ==
    /\ currentUserId = NULL
    /\ lastEvent.type = "Home.handleAddToCart"
    /\ homeMessage = Some("Please register or login to add items to cart")
    /\ InFlight("addToCart") = {}

\* ------------------------------------------------------------------------
\* C19: the message of a failed add-to-cart
\* ------------------------------------------------------------------------

\* The error text the mounted page displays, NULL when it displays none.
ErrorDisplayed ==
    IF HomeView.screen = "error" THEN Some(HomeView.text)
    ELSE IF DetailView.screen = "error" THEN Some(DetailView.text)
    ELSE IF route = "/cart" THEN CartErrorBanner
    ELSE IF RegisterView.screen = "form" THEN RegisterView.error
    ELSE NULL

\* The error state of the mounted page.
ErrorHeld ==
    IF route = "/" THEN homeError
    ELSE IF route \in ProductRoutes THEN detailError
    ELSE IF route = "/cart" THEN error
    ELSE regError

\* C19 (as stated): when an addToCart request rejects with an Error carrying
\* message m, the page that issued the request (Home or ProductDetail)
\* displays exactly m.
C19_AsStated ==
    [][lastEvent'.type = "addToCartRejected" /\ lastEvent'.value.t = "Error"
       => ErrorDisplayed' = Some(lastEvent'.value.message)]_vars

\* What holds: the page keeps exactly m as its error, and displays it unless
\* Home is reloading its products at that moment.
C19_HoldsOutsideReload ==
    [][lastEvent'.type = "addToCartRejected" /\ lastEvent'.value.t = "Error"
       => /\ ErrorHeld' = Some(lastEvent'.value.message)
          /\ homeLoading' \/ ErrorDisplayed' = Some(lastEvent'.value.message)]_vars

\* ------------------------------------------------------------------------
\* C20: rejections that are not Errors
\* ------------------------------------------------------------------------

\* The fixed fallback of each call site, by the event of its rejection.
Fallbacks ==
    [getProductsRejected |-> "Failed to load products",
     getProductRejected |-> "Failed to load product",
     getCartRejected |-> "Failed to load cart",
     addToCartRejected |-> "Failed to add to cart",
     removeRejected |-> "Failed to remove item",
     checkoutRejected |-> "Checkout failed",
     createUserRejected |-> "Failed to create user"]

\* An API call of the mounted page has just rejected with a value that is
\* not an Error.
RejectedWithNonError ==
    lastEvent.type \in DOMAIN Fallbacks /\ lastEvent.value.t # "Error"

\* C20 (as stated): when an API call rejects with a value that is not an
\* Error, the page of the call site displays the fixed fallback of that call
\* site.
C20_AsStated ==
    [][RejectedWithNonError' => ErrorDisplayed' = Some(Fallbacks[lastEvent'.type])]_vars

\* What holds: when an API call rejects with a value that is not an Error,
\* the call site sets the error text of its page to its own fixed fallback;
\* the page displays no other error text, in particular never a string form
\* of the rejected value, and displays the fallback unless its loading view
\* or the checkout result is on screen.
C20_FixedFallback ==
    [][RejectedWithNonError'
       => /\ ErrorHeld' = Some(Fallbacks[lastEvent'.type])
          /\ ErrorDisplayed' \in {NULL, Some(Fallbacks[lastEvent'.type])}
          /\ ErrorDisplayed' # Some(JsToString(lastEvent'.value))
          /\ ErrorDisplayed' = NULL
             => \/ HomeView'.screen = "loading"
                \/ CartView'.screen \in {"loading", "checkoutResult"}]_vars

\* ------------------------------------------------------------------------
\* C21: a new action attempt and the text of earlier ones
\* ------------------------------------------------------------------------

\* The requests of the transient actions.
ActionOps == {"addToCart", "removeFromCart", "checkout"}

\* The success or validation banner the mounted page displays, NULL when it
\* displays none.
MessageDisplayed ==
    IF HomeView.screen = "list" THEN HomeView.message
    ELSE IF DetailView.screen = "product" THEN DetailView.message
    ELSE NULL

\* The last step was an action attempt that went on to its request, which
\* it is now awaiting.
AttemptIssued ==
    /\ ~Falsy(currentUserId)
    /\ \/ lastEvent.type \in {"Home.handleAddToCart", "handleRemove"}
       \/ lastEvent.type = "handleCheckout" /\ error = NULL

\* r is the request of that attempt (or one that cannot be told from it).
LatestAttempt(r) ==
    /\ r.live
    /\ CASE lastEvent.type = "Home.handleAddToCart" ->
                r.op = "addToCart" /\ r.productId = lastEvent.value.n
         [] lastEvent.type = "handleRemove" ->
                r.op = "removeFromCart" /\ r.productId = lastEvent.value.n
         [] lastEvent.type = "handleCheckout" -> r.op = "checkout"
         [] OTHER -> FALSE

\* This step settles the request of an action attempted before the latest
\* attempt, whose own request stays in flight.
EarlierAttemptSettles ==
    /\ AttemptIssued
    /\ \E r \in BagToSet(pending (-) pending') :
           r.live /\ r.op \in ActionOps /\ ~LatestAttempt(r)
    /\ \E l \in BagToSet(pending') : LatestAttempt(l)

\* C21 (as stated): every new action attempt (add-to-cart, remove-from-cart,
\* checkout) clears the previous action's message before awaiting its own
\* result, and while its request is in flight no success or error text
\* produced by an earlier attempt is displayed, whenever the earlier
\* requests settle: when the request of an earlier attempt settles while the
\* latest attempt is awaiting its own, the page displays no banner and no
\* error text.
C21_AsStated ==
    [][EarlierAttemptSettles => MessageDisplayed' = NULL /\ ErrorDisplayed' = NULL]_vars

\* What holds: at the moment an action attempt goes on to its request, the
\* page displays no banner and no error text.
C21_ClearedWhenAttempted ==
    [][AttemptIssued' => MessageDisplayed' = NULL /\ ErrorDisplayed' = NULL]_vars

\* ------------------------------------------------------------------------
\* C22: two failed checkouts, one after the other
\* ------------------------------------------------------------------------

\* The request of a checkout attempt is the only request in flight.
CheckoutAlone ==
    /\ BagCardinality(pending) = 1
    /\ \E r \in InFlight("checkout") : r.live

\* C22: on the cart page a checkout attempt that goes on to its request
\* leaves no error banner on the page, whatever an earlier attempt had put
\* there; while that request is the only one in flight the page stays
\* without a banner, and the step that puts one there is the settling of
\* that request; when it rejects with an Error the banner is exactly the
\* message of that Error. So of two attempts made one after the other that both
\* fail, the message of the first is displayed at no time from the start of
\* the second on, and after the second settles the message displayed is its
\* own.
C22_SecondCheckoutReplacesFirst ==
    [][/\ (lastEvent'.type = "handleCheckout" /\ InFlight("checkout")' # {} /\ pending' # pending)
          => CartErrorBanner' = NULL
       /\ (CheckoutAlone /\ CartErrorBanner = NULL /\ Mounted')
          => \/ CartErrorBanner' = NULL
             \/ lastEvent'.type \in {"checkoutRejected", "checkoutFulfilled"}
       /\ (CheckoutAlone /\ checkoutResult = NULL
           /\ lastEvent'.type = "checkoutRejected" /\ lastEvent'.value.t = "Error")
          => CartErrorBanner' = Some(lastEvent'.value.message)]_vars

\* The second attempt has started: the banner "Payment failed" of the first
\* was on the page when the button was pressed, and is no longer.
C22_Witness ==
    /\ lastEvent.type = "handleCheckout"
    /\ lastEvent.value.text = Some("Payment failed")
    /\ CheckoutAlone
    /\ CartErrorBanner = NULL

\* ------------------------------------------------------------------------
\* C23: a transient action and the primary state of its page
\* ------------------------------------------------------------------------

\* C23 (as stated): an add-to-cart on Home or ProductDetail, whether it
\* resolves or rejects, leaves the loaded products (the loaded product) on
\* display, the page not moving to its error view, and a rejected
\* remove-from-cart leaves the cart page on its list of line items.
C23_AsStated ==
    [][/\ (lastEvent'.type \in {"addToCartFulfilled", "addToCartRejected"} /\ HomeView.screen = "list")
          => HomeView'.screen = "list" /\ products' = products
       /\ (lastEvent'.type \in {"addToCartFulfilled", "addToCartRejected"} /\ DetailView.screen = "product")
          => DetailView'.screen = "product" /\ product' = product
       /\ (lastEvent'.type = "removeRejected" /\ CartView.screen = "cartList")
          => CartView'.screen = "cartList" /\ cartItems' = cartItems]_vars

\* What holds: a resolved add-to-cart and a rejected remove-from-cart leave
\* the view of their page as it was, and a rejected add-to-cart leaves the
\* products (the product) the page holds untouched.
C23_HoldsButForRejectedAdd ==
    [][/\ lastEvent'.type = "addToCartFulfilled"
          => HomeView'.screen = HomeView.screen /\ DetailView'.screen = DetailView.screen
       /\ lastEvent'.type = "removeRejected"
          => CartView'.screen = CartView.screen /\ cartItems' = cartItems
       /\ lastEvent'.type = "addToCartRejected"
          => products' = products /\ product' = product]_vars

\* ------------------------------------------------------------------------
\* C24: the timers of the success banners
\* ------------------------------------------------------------------------

\* The messages ProductDetail.handleAddToCart validates with.
ValidationTexts ==
    {"Please register or login to add items to cart", "Quantity must be greater than 0"}
        \cup {OnlyInStock(stock) : stock \in StockValues}

\* The product view displays a validation message.
ValidationDisplayed ==
    /\ DetailView.screen = "product"
    /\ DetailView.message # NULL
    /\ Get(DetailView.message) \in ValidationTexts

\* C24 (as stated): a validation message stays displayed until the next
\* action attempt clears or replaces it, and a timer belonging to an earlier
\* action never clears a message written by a later one. A validation
\* message sets no timer, so a timer that fires while one is displayed
\* belongs to an earlier action: it leaves the message on the page.
C24_AsStated ==
    [][(ValidationDisplayed /\ lastEvent'.type = "clearMessage")
       => DetailView'.message = DetailView.message]_vars

\* What holds: a timer is set only together with a success banner, and what
\* changes a validation message on display is an add-to-cart attempt, the
\* outcome of a request issued earlier, or a timer set earlier.
C24_MessageChangedByAttemptOutcomeOrTimer ==
    [][/\ BagCardinality(timers') > BagCardinality(timers)
          => \/ /\ lastEvent'.type = "addToCartFulfilled"
                /\ Some("Item added to cart!") \in {homeMessage', detailMessage'}
             \/ lastEvent'.type = "ProductDetail.handleAddToCart" /\ Falsy(currentUserId)
       /\ (ValidationDisplayed /\ DetailView'.screen = "product" /\ DetailView'.message # DetailView.message)
          => lastEvent'.type \in {"ProductDetail.handleAddToCart", "addToCartFulfilled", "clearMessage", "logout"}]_vars

\* ------------------------------------------------------------------------
\* C25: Retry on the product list
\* ------------------------------------------------------------------------

\* C25 (as stated): Retry clears the error and puts the product list back
\* into its loading view with one getProducts request in flight (Retry and
\* the mount are the only callers of loadProducts, and Retry is offered only
\* once the request of the mount has settled); when that request settles the
\* page shows its outcome, the products when it resolved and the message of
\* the new failure when it rejected.
C25_AsStated ==
    [][/\ lastEvent'.type = "retry"
          => /\ HomeView'.screen = "loading"
             /\ homeError' = NULL
             /\ CountOf(pending', "getProducts") = 1
       /\ lastEvent'.type = "getProductsFulfilled"
          => HomeView'.screen = "list"
       /\ lastEvent'.type = "getProductsRejected"
          => /\ HomeView'.screen = "error"
             /\ HomeView'.text = MessageOr(lastEvent'.value, "Failed to load products")]_vars

\* What holds: the same, as long as no add-to-cart request issued before the
\* error is still in flight when Retry is activated.
C25_HoldsWithNoAddToCartInFlight ==
    [][/\ lastEvent'.type = "retry"
          => /\ HomeView'.screen = "loading"
             /\ homeError' = NULL
             /\ CountOf(pending', "getProducts") = 1
       /\ (lastEvent'.type = "getProductsFulfilled" /\ homeError = NULL)
          => HomeView'.screen = "list"
       /\ lastEvent'.type = "getProductsRejected"
          => /\ HomeView'.screen = "error"
             /\ HomeView'.text = MessageOr(lastEvent'.value, "Failed to load products")
       /\ (HomeView.screen = "loading" /\ HomeView'.screen # "unmounted"
           /\ homeError' # homeError /\ lastEvent'.type # "getProductsRejected")
          => lastEvent'.type = "addToCartRejected"]_vars

\* ------------------------------------------------------------------------
\* C26: a fetched cart replaces the cart held
\* ------------------------------------------------------------------------

\* C26: after every successful cart fetch the line items the cart page holds
\* are exactly the fetched sequence, the same items in the same order,
\* whatever the page held before.
C26_FetchReplacesCart ==
    [][lastEvent'.type = "getCartFulfilled" => cartItems' = lastEvent'.value.data]_vars

\* A fetch has replaced line items by others: the page held items, and what
\* was fetched is neither empty nor what was held nor a sequence that
\* extends it.
C26_Witness ==
    /\ lastEvent.type = "getCartFulfilled"
    /\ lastEvent.value.replaced
    /\ cartItems = lastEvent.value.data

\* ------------------------------------------------------------------------
\* C28: the page-level handlers never reject
\* ------------------------------------------------------------------------

\* The events of the continuations that run when an awaited API promise
\* resolves.
FulfilledEvents ==
    {"getProductsFulfilled", "getProductFulfilled", "getCartFulfilled", "addToCartFulfilled",
     "removeFulfilled", "checkoutFulfilled", "createUserFulfilled"}

\* The promise of the handler whose continuation ran in the last step,
\* Pending when the last step was none.
HandlerPromise ==
    IF lastEvent.type \in DOMAIN Fallbacks
    THEN AsyncTryCatch(Rejected(lastEvent.value), FALSE)
    ELSE IF lastEvent.type \in {"checkoutFulfilled", "createUserFulfilled"}
    THEN AsyncTryCatch(Fulfilled(lastEvent.value), lastEvent.value.t = "undefined")
    ELSE IF lastEvent.type \in FulfilledEvents
    THEN AsyncTryCatch(Fulfilled(Undefined), FALSE)
    ELSE Pending

FetchOps == {"getProducts", "getProductById", "getCart"}

\* A fetch of the mounted page is in flight.
FetchInFlight == \E r \in BagToSet(pending) : r.live /\ r.op \in FetchOps

\* The mounted page holds its loading flag and renders its loading indicator.
PageLoading ==
    \/ homeLoading /\ HomeView.screen = "loading"
    \/ detailLoading /\ DetailView.screen = "loading"
    \/ loading /\ CartView.screen = "loading"

\* C29 (as stated): whenever a product-list, single-product or cart fetch
\* is in flight for an identified user, the page holds its loading flag and
\* renders its loading indicator, also when several fetches of the same page
\* overlap.
C29_AsStated == (~Falsy(currentUserId) /\ FetchInFlight) => PageLoading

\* What holds: the same on the product list and the product page, whose
\* fetches never overlap, and on the cart page from the moment a fetch is
\* issued until the first fetch settles.
C29_LoadingUntilFirstFetchSettles ==
    [][/\ (~Falsy(currentUserId') /\ FetchInFlight' /\ route' # "/cart") => PageLoading'
       /\ (~Falsy(currentUserId') /\ CountOf(pending', "getCart") > CountOf(pending, "getCart")
           /\ \E r \in InFlight("getCart")' : r.live)
          => PageLoading'
       /\ (PageLoading /\ ~PageLoading' /\ route' = route)
          => lastEvent'.type \in {"getProductsFulfilled", "getProductsRejected", "getProductFulfilled",
                                  "getProductRejected", "getCartFulfilled", "getCartRejected", "logout"}]_vars

\* ------------------------------------------------------------------------
\* C30: repeated add-to-cart clicks on the product list
\* ------------------------------------------------------------------------

\* The text the product list displays, banner or error, NULL when it
\* displays none.
HomeTextDisplayed ==
    IF HomeView.screen = "error" THEN Some(HomeView.text)
    ELSE IF HomeView.screen = "list" THEN HomeView.message
    ELSE NULL

\* C30 (as stated): on the product list every click of an identified user
\* on "Add to Cart" issues one more addToCart request, whatever is already
\* in flight; every request settles by itself; and when the last of them
\* settles the text the page displays is the one that request wrote, the
\* success banner when it resolved and its error message when it rejected.
C30_AsStated ==
    [][/\ (lastEvent'.type = "Home.handleAddToCart" /\ ~Falsy(currentUserId))
          => CountOf(pending', "addToCart") = CountOf(pending, "addToCart") + 1
       /\ (route = "/" /\ lastEvent'.type \in {"addToCartFulfilled", "addToCartRejected"})
          => CountOf(pending', "addToCart") = CountOf(pending, "addToCart") - 1
       /\ (route = "/" /\ lastEvent'.type = "addToCartFulfilled" /\ CountOf(pending', "addToCart") = 0)
          => HomeTextDisplayed' = Some("Item added to cart!")
       /\ (route = "/" /\ lastEvent'.type = "addToCartRejected" /\ CountOf(pending', "addToCart") = 0)
          => HomeTextDisplayed' = Some(MessageOr(lastEvent'.value, "Failed to add to cart"))]_vars

\* What holds: the clicks are neither blocked nor merged and the requests
\* settle one by one; the last one to settle writes its text, which the page
\* displays unless an earlier request had rejected (the error view then
\* hides the banner) or the list is being reloaded.
C30_HoldsUnlessAnEarlierOneRejected ==
    [][/\ (lastEvent'.type = "Home.handleAddToCart" /\ ~Falsy(currentUserId))
          => CountOf(pending', "addToCart") = CountOf(pending, "addToCart") + 1
       /\ (route = "/" /\ lastEvent'.type \in {"addToCartFulfilled", "addToCartRejected"})
          => CountOf(pending', "addToCart") = CountOf(pending, "addToCart") - 1
       /\ (route = "/" /\ lastEvent'.type = "addToCartFulfilled")
          => /\ homeMessage' = Some("Item added to cart!")
             /\ (HomeView.screen = "list" => HomeTextDisplayed' = homeMessage')
       /\ (route = "/" /\ lastEvent'.type = "addToCartRejected")
          => /\ homeError' = Some(MessageOr(lastEvent'.value, "Failed to add to cart"))
             /\ (~homeLoading => HomeTextDisplayed' = homeError')]_vars

\* ------------------------------------------------------------------------
\* C31: the empty cart and the failed fetch
\* ------------------------------------------------------------------------

\* The page shows "Your cart is empty" with its "Start Shopping" button.
EmptyCartShown == CartView.screen = "empty"

\* No cart fetch of the mounted page is in flight.
NoCartFetchInFlight == \A r \in InFlight("getCart") : ~r.live

\* C31 (as stated): when the most recent cart fetch rejected, the cart page
\* does not show the empty-cart message and its "Start Shopping" button.
C31_AsStated ==
    (lastEvent.type = "getCartRejected" /\ NoCartFetchInFlight) => ~EmptyCartShown

\* What holds: a fetch that resolves with no items leads to the empty-cart
\* message unless a checkout result is displayed, a fetch that resolves with
\* items never does, and a fetch that rejects leaves the page as empty or as
\* populated as the items it held make it.
C31_EmptyFollowsItemsHeld ==
    [][/\ (lastEvent'.type = "getCartFulfilled" /\ checkoutResult = NULL)
          => (EmptyCartShown' <=> lastEvent'.value.data = <<>>)
       /\ (lastEvent'.type = "getCartRejected" /\ checkoutResult = NULL)
          => (EmptyCartShown' <=> cartItems = <<>>)]_vars

\* ------------------------------------------------------------------------
\* C32: a persisted user opening the cart page
\* ------------------------------------------------------------------------

\* The application has just been opened at the cart route.
OpensCart == lastEvent'.type = "open" /\ lastEvent'.value.url = "/cart"

\* The cart page stays on its route and fetches the cart of userId.
CartEntered(userId) ==
    /\ route' = "/cart"
    /\ pending' = SetToBag({Request("getCart", Get(userId), 0, TRUE)})

\* C32 (as stated): a session that starts with a user id persisted in the store
\* holds that id, and the cart page, opened then or later, stays on its route
\* and fetches that user's cart; opening the cart route leads to the
\* registration route only when the store holds no user id.
C32_AsStated ==
    [][/\ (lastEvent'.type = "open" /\ storage # NULL)
          => currentUserId' = Some(parseInt(Get(storage)).n)
       /\ (OpensCart /\ storage # NULL) => CartEntered(currentUserId')
       /\ (OpensCart /\ route' = "/register") => storage = NULL]_vars

\* What holds: the id persisted is read back before the page of the route
\* mounts, and for every id other than 0 the cart page stays on its route and
\* fetches that user's cart; it leads on to the registration route only when
\* the store holds no id or the id 0.
C32_HoldsForNonZeroIds ==
    [][/\ (lastEvent'.type = "open" /\ storage # NULL)
          => currentUserId' = Some(parseInt(Get(storage)).n)
       /\ (OpensCart /\ storage # NULL /\ storage # Some(<<"0">>)) => CartEntered(currentUserId')
       /\ (lastEvent'.type = "mount" /\ route # Closed)
          => /\ currentUserId' # NULL
             /\ route' = "/cart"
             /\ Request("getCart", Get(currentUserId'), 0, TRUE) \in BagToSet(pending')
       /\ (OpensCart /\ route' = "/register") => storage \in {NULL, Some(<<"0">>)}]_vars

\* ------------------------------------------------------------------------
\* C33: removeFromCart rejects
\* ------------------------------------------------------------------------

\* The text the catch of handleRemove sets for the rejection just handled.
RemoveFailureText == MessageOr(lastEvent'.value, "Failed to remove item")

\* C33 (as stated): when removeFromCart rejects, the cart page keeps its cart
\* items as they were, issues no getCart request and shows the message of the
\* rejection, or "Failed to remove item" when the rejection is not an Error.
C33_AsStated ==
    [][lastEvent'.type = "removeRejected" =>
           /\ cartItems' = cartItems
           /\ CountOf(pending', "getCart") = CountOf(pending, "getCart")
           /\ CartErrorBanner' = Some(RemoveFailureText)]_vars

\* What holds: the cart items are kept, no request is issued, and the error
\* text of the page becomes that message, which is on the page as soon as
\* neither the loading indicator nor a checkout result is displayed.
C33_RejectedRemoveKeepsCart ==
    [][lastEvent'.type = "removeRejected" =>
           /\ cartItems' = cartItems
           /\ BagCardinality(pending') = BagCardinality(pending) - 1
           /\ CountOf(pending', "getCart") = CountOf(pending, "getCart")
           /\ error' = Some(RemoveFailureText)
           /\ (~loading /\ checkoutResult = NULL) => CartErrorBanner' = error']_vars

\* ------------------------------------------------------------------------
\* C34: the cart reload after a remove
\* ------------------------------------------------------------------------

\* The getCart request of the mounted page for the user of the session.
Reload == Request("getCart", Get(currentUserId), 0, TRUE)

\* How many times request r is in bag.
Copies(bag, r) == IF r \in BagToSet(bag) THEN bag[r] ELSE 0

\* C34: when removeFromCart resolves, handleRemove issues one getCart for the
\* same user id, and the page shows its loading indicator; no getCart is
\* issued when "Remove" is clicked, nor when removeFromCart rejects: the page,
\* once mounted, issues a getCart only in the step in which a removeFromCart
\* resolves, and for the user id of that request; and when a getCart resolves,
\* the items of the page are those of its response.
C34_RemoveThenOneReload ==
    [][/\ lastEvent'.type = "removeFulfilled"
          => /\ Copies(pending', Reload) = Copies(pending, Reload) + 1
             /\ CountOf(pending', "getCart") = CountOf(pending, "getCart") + 1
             /\ CountOf(pending', "removeFromCart") = CountOf(pending, "removeFromCart") - 1
             /\ BagCardinality(pending') = BagCardinality(pending)
             /\ CartView'.screen = "loading"
       /\ lastEvent'.type \in {"handleRemove", "removeRejected"}
          => CountOf(pending', "getCart") = CountOf(pending, "getCart")
       /\ (Mounted /\ CountOf(pending', "getCart") > CountOf(pending, "getCart"))
          => /\ lastEvent'.type \in {"removeFulfilled", "orphan"}
             /\ \E r \in InFlight("removeFromCart") :
                    pending' = Issue(Settle(pending, r), Request("getCart", r.userId, 0, r.live))
       /\ lastEvent'.type = "getCartFulfilled"
          => /\ cartItems' = lastEvent'.value.data
             /\ CountOf(pending', "getCart") = CountOf(pending, "getCart") - 1
             /\ (checkoutResult = NULL =>
                   CartView'.screen = (IF cartItems' = <<>> THEN "empty" ELSE "cartList"))]_vars

\* removeFromCart has just resolved on the page showing its items: the reload
\* is the only request in flight.
C34_Witness ==
    /\ lastEvent.type = "removeFulfilled"
    /\ cartItems # <<>>
    /\ pending = SetToBag({Reload})
    /\ loading

\* ------------------------------------------------------------------------
\* C35: every load leaves Loading
\* ------------------------------------------------------------------------

\* The fetch of a load settles: loadProducts, loadProduct or loadCart
\* continues after its await.
FetchSettles ==
    \/ \E req \in InFlight("getProducts"), data \in Catalogs : GetProductsFulfilled(req, data)
    \/ \E req \in InFlight("getProducts"), err \in Rejections : GetProductsRejected(req, err)
    \/ \E req \in InFlight("getProductById"), stock \in StockValues :
           GetProductFulfilled(req, ProductOf(req.productId, stock))
    \/ \E req \in InFlight("getProductById"), err \in Rejections : GetProductRejected(req, err)
    \/ \E req \in InFlight("getCart"), data \in Carts : GetCartFulfilled(req, data)
    \/ \E req \in InFlight("getCart"), err \in Rejections : GetCartRejected(req, err)

\* The application as far as its loads go: the user opens it, follows the
\* links between the product list, a product and the cart, retries a failed
\* list, removes items (each remove reloading the cart) and logs out.
NextLoads ==
    \/ FetchSettles
    \/ \E url \in Routes : OpenApp(url)
    \/ HeaderProducts
    \/ HeaderCart
    \/ HeaderLogout
    \/ \E i \in 1..MaxProducts : ClickCardLink(i)
    \/ ClickBack
    \/ ClickShopping
    \/ ClickRetry
    \/ \E i \in 1..MaxCartLen : ClickRemove(i)
    \/ \E req \in InFlight("removeFromCart") : RemoveFulfilled(req)
    \/ \E req \in InFlight("removeFromCart"), err \in Rejections : RemoveRejected(req, err)

\* Every request of a load eventually settles.
SpecLoads == InitApp /\ [][NextLoads]_vars /\ WF_vars(FetchSettles)

\* The events of a fetch of the mounted page settling.
FetchSettledEvents ==
    {"getProductsFulfilled", "getProductsRejected", "getProductFulfilled",
     "getProductRejected", "getCartFulfilled", "getCartRejected"}

\* The loading flag of the mounted page.
LoadingFlag ==
    IF route = "/" THEN homeLoading
    ELSE IF route \in ProductRoutes THEN detailLoading
    ELSE IF route = "/cart" THEN loading
    ELSE FALSE

\* C35: when the fetch of loadProducts, loadProduct or loadCart resolves or
\* rejects, the loading flag of its page becomes false; and, every request
\* eventually settling, a page that shows its loading indicator eventually
\* stops showing it.
C35_EveryLoadLeavesLoading ==
    /\ [][lastEvent'.type \in FetchSettledEvents => ~LoadingFlag' /\ ~PageLoading']_vars
    /\ (HomeView.screen = "loading") ~> (HomeView.screen # "loading")
    /\ (DetailView.screen = "loading") ~> (DetailView.screen # "loading")
    /\ (CartView.screen = "loading") ~> (CartView.screen # "loading")

\* A load has just failed and its page, no longer loading, shows the error.
C35_Witness ==
    /\ lastEvent.type \in {"getProductsRejected", "getProductRejected", "getCartRejected"}
    /\ ~LoadingFlag
    /\ ErrorDisplayed # NULL
    /\ pending = EmptyBag

\* ------------------------------------------------------------------------
\* C36: the registration form while its request is in flight
\* ------------------------------------------------------------------------

\* The createUser requests in flight whose form is mounted.
LiveCreateUser == {r \in InFlight("createUser") : r.live}

\* C36 (as stated): at most one createUser request is in flight at any time.
C36_AsStated == CountOf(pending, "createUser") <= 1

\* C36 (amended): while the createUser request of the mounted form is in
\* flight the form holds loading = true and its controls are disabled, so a
\* form never has more than one request of its own in flight; loading is
\* false again when that request has settled, resolved or rejected.
C36_FormDisabledWhileInFlight ==
    [][/\ (lastEvent'.type = "handleSubmit" /\ CountOf(pending', "createUser") > CountOf(pending, "createUser"))
          => /\ regLoading'
             /\ RegisterView' = [screen |-> "form", error |-> NULL, disabled |-> TRUE]
       /\ LiveCreateUser' # {}
          => /\ regLoading'
             /\ RegisterView'.screen = "form"
             /\ ~FormEnabled'
       /\ BagCardinality([r \in LiveCreateUser' |-> pending'[r]]) <= 1
       /\ lastEvent'.type \in {"createUserFulfilled", "createUserRejected"}
          => ~regLoading' /\ LiveCreateUser' = {}]_vars

\* The request of the mounted form is in flight beside the request of a form
\* the user had left, and the form is disabled.
C36_Witness ==
    /\ CountOf(pending, "createUser") = 2
    /\ BagCardinality([r \in LiveCreateUser |-> pending[r]]) = 1
    /\ RegisterView.screen = "form"
    /\ RegisterView.disabled

\* ------------------------------------------------------------------------
\* C37: registration and the identity
\* ------------------------------------------------------------------------

\* The identity of the session and the entry of the persistent store.
identityVars == <<currentUserId, storage>>

\* C37: a submit that fails validation, a submit the browser blocks, a
\* submit that issues its request and a createUser that rejects (or resolves
\* without a user) leave the identity and the store as they were; an id is
\* set, and an entry written, only in the step in which createUser resolves
\* with a user: the identity becomes the id of the response, the store holds
\* its string form, and the product list mounts with both in place.
C37_IdentityOnlyFromResponse ==
    [][/\ lastEvent'.type \in {"handleSubmit", "submitBlocked", "createUserRejected"}
          => UNCHANGED identityVars
       /\ (lastEvent'.type = "createUserFulfilled" /\ lastEvent'.value = Undefined)
          => UNCHANGED identityVars
       /\ (lastEvent'.type = "orphan" /\ CountOf(pending', "createUser") < CountOf(pending, "createUser"))
          => UNCHANGED identityVars
       /\ (currentUserId' # currentUserId /\ currentUserId' # NULL)
          => lastEvent'.type \in {"createUserFulfilled", "open"}
       /\ (storage' # storage /\ storage' # NULL)
          => lastEvent'.type = "createUserFulfilled"
       /\ (lastEvent'.type = "createUserFulfilled" /\ lastEvent'.value # Undefined)
          => /\ currentUserId' = Some(lastEvent'.value.id)
             /\ storage' = Some(NumberToString(lastEvent'.value.id))
             /\ route' = "/"
             /\ CountOf(pending', "createUser") = CountOf(pending, "createUser") - 1]_vars

\* A registration has just succeeded for a session that had no identity but
\* the one the response brought: the product list is mounted for user 1.
C37_Witness ==
    /\ lastEvent.type = "createUserFulfilled"
    /\ lastEvent.value # Undefined
    /\ lastEvent.value.id = 1
    /\ currentUserId = Some(1)
    /\ storage = Some(<<"1">>)
    /\ route = "/"
    /\ Request("getProducts", 0, 0, TRUE) \in BagToSet(pending)

\* ------------------------------------------------------------------------
\* C38: the user id 0
\* ------------------------------------------------------------------------

\* A page takes one of its anonymous branches: the registration form is
\* rendered, a product card or the product page offers to register, or the
\* cart route, just opened, has led on to the registration route.
AnonymousBranchTaken ==
    \/ RegisterView.screen = "form"
    \/ \E i \in 1..Len(products) : CardRendered(i) /\ CardAffordance(i) = "register"
    \/ DetailView.screen = "product" /\ DetailView.affordance = "register"
    \/ lastEvent.type = "open" /\ lastEvent.value.url = "/cart" /\ route = "/register"

\* C38 (as stated): the pages take their anonymous branches only when
\* currentUserId is null; every id, 0 included, is treated as identified.
C38_AsStated == AnonymousBranchTaken => currentUserId = NULL

\* What holds: the pages take their anonymous branches only when
\* currentUserId is null or 0, and take them whenever it is; every other id
\* gets the identified branches.
C38_HoldsForNonZeroIds ==
    /\ AnonymousBranchTaken => currentUserId \in {NULL, Some(0)}
    /\ currentUserId \in {NULL, Some(0)}
       => /\ RegisterView.screen \in {"unmounted", "form"}
          /\ \A i \in 1..Len(products) : CardRendered(i) => CardAffordance(i) = "register"
          /\ DetailView.screen = "product" => DetailView.affordance = "register"
          /\ ~Mounted

\* ------------------------------------------------------------------------
\* C39: requests of the cart page after logout
\* ------------------------------------------------------------------------

\* The requests the cart page issues.
CartOps == {"getCart", "removeFromCart", "checkout"}

\* A request of the cart page is issued in this step.
CartRequestIssued(op) == CountOf(pending', op) > CountOf(pending, op)

\* C39 (as stated): once the user has logged out, and for as long as the
\* session stays anonymous, no getCart, removeFromCart or checkout request is
\* issued, neither by the page nor by a handler whose request was in flight
\* at the logout.
C39_AsStated ==
    [][(currentUserId = NULL /\ currentUserId' = NULL)
          => \A op \in CartOps : ~CartRequestIssued(op)]_vars

\* What holds: in an anonymous session no removeFromCart and no checkout is
\* issued, and the logout itself issues nothing; a getCart is issued only by
\* the continuation of a remove that was in flight at the logout, which
\* reloads the cart of the user that remove was made for.
C39_OnlyReloadOfRemoveInFlight ==
    [][/\ (currentUserId = NULL /\ currentUserId' = NULL)
          => /\ ~CartRequestIssued("removeFromCart")
             /\ ~CartRequestIssued("checkout")
             /\ CartRequestIssued("getCart")
                => /\ lastEvent'.type = "orphan"
                   /\ \E r \in InFlight("removeFromCart") :
                          /\ ~r.live
                          /\ pending' = Issue(Settle(pending, r), Request("getCart", r.userId, 0, FALSE))
       /\ lastEvent'.type = "logout"
          => /\ currentUserId' = NULL
             /\ BagCardinality(pending') <= BagCardinality(pending)
             /\ \A r \in BagToSet(pending') : r.op \in CartOps => ~r.live]_vars

====
